---- MODULE Spec2Model ----
(***************************************************************************)
(* Model of the permission-gated command / script execution subsystem of   *)
(* hanzo_mcp (hanzo_mcp/tools/shell/command_executor.py).                  *)
(*                                                                         *)
(* Python strings are modelled as sequences of one-character strings, so   *)
(* that shlex.split, str.split, os.path.join, os.path.expanduser and       *)
(* os.path.normpath are computed character by character as the library     *)
(* computes them.  An invocation of an async method is a task; one action  *)
(* models the code a task runs between two suspension points (await).      *)
(***************************************************************************)
EXTENDS Integers, Sequences, FiniteSets, TLC

(***************************************************************************)
(* Values                                                                  *)
(***************************************************************************)
\* Optional[T]: Nothing is Python's None, Some(x) a present value
Nothing == << >>

Some(x) == <<x>>

\* the empty Python string
Empty == << >>

Whitespace == {" ", "\t"}

(***************************************************************************)
(* The file system the executor runs against: existing directories, as     *)
(* sequences of path components below the root: /, /a, /a/b and /x.        *)
(***************************************************************************)
Dirs == { << >>, << <<"a">> >>, << <<"a">>, <<"b">> >>, << <<"x">> >> }

\* the directory the server process was started in (an absolute path string)
ProcessCwd == <<"/">>

\* $HOME of the server process
Home == <<"/", "x">>

(***************************************************************************)
(* String helpers                                                          *)
(***************************************************************************)
StartsWith(s, p) == Len(s) >= Len(p) /\ SubSeq(s, 1, Len(p)) = p

EndsWith(s, p) == Len(s) >= Len(p) /\ SubSeq(s, Len(s) - Len(p) + 1, Len(s)) = p

\* op in s, for strings
Contains(s, op) ==
    \E i \in 1..(Len(s) - Len(op) + 1) : SubSeq(s, i, i + Len(op) - 1) = op

RECURSIVE Strip(_)
\* str.strip()
Strip(s) ==
    IF s = Empty THEN s
    ELSE IF Head(s) \in Whitespace THEN Strip(Tail(s))
    ELSE IF s[Len(s)] \in Whitespace THEN Strip(SubSeq(s, 1, Len(s) - 1))
    ELSE s

RECURSIVE SplitOn(_, _, _)
\* s.split(sep) for a one-character separator: the pieces between separators,
\* empty pieces included; cur is the piece being read
SplitOn(s, sep, cur) ==
    IF s = Empty THEN <<cur>>
    ELSE IF Head(s) = sep THEN <<cur>> \o SplitOn(Tail(s), sep, Empty)
    ELSE SplitOn(Tail(s), sep, Append(cur, Head(s)))

RECURSIVE SplitWs(_, _)
\* str.split() without argument: runs of whitespace separate, no empty piece
SplitWs(s, cur) ==
    IF s = Empty THEN (IF cur = Empty THEN << >> ELSE <<cur>>)
    ELSE IF Head(s) \in Whitespace
         THEN (IF cur = Empty THEN << >> ELSE <<cur>>) \o SplitWs(Tail(s), Empty)
    ELSE SplitWs(Tail(s), Append(cur, Head(s)))

LowerChar(c) == IF c = "F" THEN "f" ELSE c

\* str.lower() over the alphabet of the model
Lower(s) == [i \in 1..Len(s) |-> LowerChar(s[i])]

RECURSIVE JoinWith(_, _)
\* sep.join(parts)
JoinWith(parts, sep) ==
    IF parts = << >> THEN Empty
    ELSE IF Len(parts) = 1 THEN parts[1]
    ELSE parts[1] \o sep \o JoinWith(Tail(parts), sep)

(***************************************************************************)
(* shlex.split(command): POSIX word splitting.  st is the lexer state:     *)
(* "ws" between words, "word" inside an unquoted word, "sq" / "dq" inside  *)
(* single / double quotes.  The result is [ok |-> TRUE, words |-> ...], or *)
(* ShlexError where shlex raises ValueError (no closing quotation, no      *)
(* escaped character).                                                     *)
(***************************************************************************)
ShlexError == [ok |-> FALSE, words |-> << >>]

RECURSIVE ShlexLex(_, _, _, _)
ShlexLex(s, st, tok, out) ==
    IF s = Empty THEN
        IF st \in {"sq", "dq"} THEN ShlexError
        ELSE IF st = "word" THEN [ok |-> TRUE, words |-> Append(out, tok)]
        ELSE [ok |-> TRUE, words |-> out]
    ELSE
        LET c == Head(s)
            r == Tail(s)
        IN  CASE st = "sq" ->
                    IF c = "'" THEN ShlexLex(r, "word", tok, out)
                    ELSE ShlexLex(r, "sq", Append(tok, c), out)
              [] st = "dq" ->
                    IF c = "\"" THEN ShlexLex(r, "word", tok, out)
                    ELSE IF c = "\\" THEN
                        IF r = Empty THEN ShlexError
                        ELSE IF Head(r) \in {"\"", "\\"}
                             THEN ShlexLex(Tail(r), "dq", Append(tok, Head(r)), out)
                             ELSE ShlexLex(Tail(r), "dq", tok \o <<c, Head(r)>>, out)
                    ELSE ShlexLex(r, "dq", Append(tok, c), out)
              [] OTHER ->
                    IF c \in Whitespace THEN
                        IF st = "word" THEN ShlexLex(r, "ws", Empty, Append(out, tok))
                        ELSE ShlexLex(r, "ws", Empty, out)
                    ELSE IF c = "'" THEN ShlexLex(r, "sq", tok, out)
                    ELSE IF c = "\"" THEN ShlexLex(r, "dq", tok, out)
                    ELSE IF c = "\\" THEN
                        IF r = Empty THEN ShlexError
                        ELSE ShlexLex(Tail(r), "word", Append(tok, Head(r)), out)
                    ELSE ShlexLex(r, "word", Append(tok, c), out)

ShlexSplit(command) == ShlexLex(command, "ws", Empty, << >>)

(***************************************************************************)
(* os.path                                                                 *)
(***************************************************************************)
Slash == <<"/">>

\* os.path.isabs
IsAbs(p) == StartsWith(p, Slash)

\* os.path.join(a, b)
PathJoin(a, b) ==
    IF IsAbs(b) THEN b
    ELSE IF a = Empty \/ EndsWith(a, Slash) THEN a \o b
    ELSE a \o Slash \o b

RECURSIVE FindSlash(_, _)
\* path.find('/', i) as a 1-based index, Len(path) + 1 when there is none
FindSlash(p, i) ==
    IF i > Len(p) THEN Len(p) + 1
    ELSE IF p[i] = "/" THEN i
    ELSE FindSlash(p, i + 1)

RECURSIVE RStripSlash(_)
RStripSlash(p) ==
    IF p # Empty /\ p[Len(p)] = "/" THEN RStripSlash(SubSeq(p, 1, Len(p) - 1)) ELSE p

\* os.path.expanduser: "~" and "~/..." become $HOME; "~user" of an unknown
\* user and every path not starting with "~" are returned unchanged
ExpandUser(p) ==
    IF ~StartsWith(p, <<"~">>) THEN p
    ELSE LET i == FindSlash(p, 2)
         IN  IF i # 2 THEN p
             ELSE LET r == RStripSlash(Home) \o SubSeq(p, i, Len(p))
                  IN  IF r = Empty THEN Slash ELSE r

RECURSIVE NormComps(_, _, _)
\* the loop of posixpath.normpath over the components
NormComps(comps, new, initial) ==
    IF comps = << >> THEN new
    ELSE LET c == Head(comps)
         IN  IF c = Empty \/ c = <<".">> THEN NormComps(Tail(comps), new, initial)
             ELSE IF c # <<".", ".">>
                     \/ (~initial /\ new = << >>)
                     \/ (new # << >> /\ new[Len(new)] = <<".", ".">>)
                  THEN NormComps(Tail(comps), Append(new, c), initial)
             ELSE IF new # << >>
                  THEN NormComps(Tail(comps), SubSeq(new, 1, Len(new) - 1), initial)
             ELSE NormComps(Tail(comps), new, initial)

\* os.path.normpath
NormPath(p) ==
    IF p = Empty THEN <<".">>
    ELSE LET initial == IsAbs(p)
             two     == StartsWith(p, <<"/", "/">>) /\ ~StartsWith(p, <<"/", "/", "/">>)
             body    == JoinWith(NormComps(SplitOn(p, "/", Empty), << >>, initial), Slash)
             r       == IF ~initial THEN body
                        ELSE IF two THEN <<"/", "/">> \o body
                        ELSE Slash \o body
         IN  IF r = Empty THEN <<".">> ELSE r

\* "no such directory", the result of a failed lookup (no directory has an
\* empty component)
NoDir == <<Empty>>

RECURSIVE Walk(_, _)
\* the directory the kernel reaches from directory at (a member of Dirs) along
\* the components comps, or NoDir when a component does not exist
Walk(at, comps) ==
    IF at = NoDir THEN NoDir
    ELSE IF comps = << >> THEN at
    ELSE LET c == Head(comps)
         IN  IF c = Empty \/ c = <<".">> THEN Walk(at, Tail(comps))
             ELSE IF c = <<".", ".">>
                  THEN Walk(IF at = << >> THEN at ELSE SubSeq(at, 1, Len(at) - 1),
                            Tail(comps))
             ELSE IF Append(at, c) \in Dirs
                  THEN Walk(Append(at, c), Tail(comps))
             ELSE NoDir

\* the components of an absolute normalised path string
CompsOf(p) == NormComps(SplitOn(p, "/", Empty), << >>, TRUE)

\* the directory a path string names (relative paths start at the process
\* directory), or NoDir
Lookup(p) ==
    IF p = Empty THEN NoDir
    ELSE Walk(IF IsAbs(p) THEN << >> ELSE Walk(<< >>, SplitOn(ProcessCwd, "/", Empty)),
              SplitOn(p, "/", Empty))

\* os.path.isdir
IsDir(p) == Lookup(p) # NoDir

(***************************************************************************)
(* PermissionManager: allowed and excluded paths, kept as the component    *)
(* sequences of resolved absolute paths.                                   *)
(***************************************************************************)
\* Path(path).resolve(): absolute, "." and ".." removed
ResolveComps(path) == CompsOf(PathJoin(ProcessCwd, path))

\* c is base or lies below it, by path components
IsUnder(c, base) == Len(base) <= Len(c) /\ SubSeq(c, 1, Len(base)) = base

IsPathAllowed(path, allowed, excluded) ==
    LET c == ResolveComps(path)
    IN  /\ \E a \in allowed : IsUnder(c, a)
        /\ ~\E e \in excluded : IsUnder(c, e)

\* a slip: the paths are compared as strings, by prefix
RelativeToByPrefix(c, base) == StartsWith(JoinWith(c, Slash), JoinWith(base, Slash))

\* resolved_path.relative_to(allowed_path) raises no ValueError: the
\* components of allowed_path are the first components of resolved_path
RelativeTo(c, base) ==
    /\ Len(base) <= Len(c)
    /\ \A i \in 1..Len(base) : c[i] = base[i]

\* DocumentContext.is_path_allowed
DocIsPathAllowed(path, allowed) ==
    \E a \in allowed : RelativeTo(ResolveComps(path), a)

(***************************************************************************)
(* SessionManager: the process-wide registry session id -> working         *)
(* directory.  A record is created on first reference and never removed.   *)
(***************************************************************************)
SessionIds == {"s1", "s2"}

\* SessionManager.get_instance
GetInstance(reg, sid) ==
    IF sid \in DOMAIN reg THEN reg ELSE reg @@ (sid :> ProcessCwd)

\* str(Path(p).resolve())
ResolveStr(p) ==
    LET c == ResolveComps(p) IN IF c = << >> THEN Slash ELSE Slash \o JoinWith(c, Slash)

SessionSetDir(reg, sid, path) ==
    [GetInstance(reg, sid) EXCEPT ![sid] = ResolveStr(path)]

(***************************************************************************)
(* CommandResult and the error messages.  An f-string message is kept as   *)
(* its format text with the values interpolated into it.                   *)
(***************************************************************************)
Msg(fmt, timeout, arg, exc) == [fmt |-> fmt, timeout |-> timeout, arg |-> arg, exc |-> exc]

CommandResult(return_code, stdout, stderr, error_message) ==
    [return_code |-> return_code, stdout |-> stdout, stderr |-> stderr,
     error_message |-> error_message]

\* CommandResult(return_code=..., error_message=...)
\* a slip: the failure is built with the default return code
FailureAsSuccess(return_code, msg) == CommandResult(0, Empty, Empty, Some(msg))

Failure(return_code, msg) == CommandResult(return_code, Empty, Empty, Some(msg))

\* CommandResult.is_success
IsSuccess(r) == r.return_code = 0

(***************************************************************************)
(* CommandExecutor: pure parts                                             *)
(***************************************************************************)
\* x in list
InList(x, list) == \E i \in 1..Len(list) : list[i] = x

\* list.remove(x): the first occurrence goes
RECURSIVE ListRemove(_, _)
ListRemove(list, x) ==
    IF list = << >> THEN list
    ELSE IF Head(list) = x THEN Tail(list)
    ELSE <<Head(list)>> \o ListRemove(Tail(list), x)

\* the truth value of an Optional[str]: None and "" are false
Truthy(opt) == opt # Nothing /\ opt[1] # Empty

\* a slip: a command that cannot be split is let through
IsCommandAllowedUnparsed(command, excluded) ==
    LET r == ShlexSplit(command)
    IN  IF ~r.ok THEN TRUE
        ELSE IF r.words = << >> THEN FALSE
        ELSE ~InList(r.words[1], excluded)

\* a slip: the whole command line, not its first word, is looked up
IsCommandAllowedWholeLine(command, excluded) ==
    LET r == ShlexSplit(command)
    IN  IF ~r.ok THEN FALSE
        ELSE IF r.words = << >> THEN FALSE
        ELSE ~InList(command, excluded)

IsCommandAllowed(command, excluded) ==
    LET r == ShlexSplit(command)
    IN  IF ~r.ok THEN FALSE
        ELSE IF r.words = << >> THEN FALSE
        ELSE ~InList(r.words[1], excluded)

\* a slip: the directory of the session is not taken
EffectiveCwdWithoutSession(cwd, session, reg) == cwd

\* effective_cwd = cwd; if session_id and not cwd: effective_cwd = get_working_dir
EffectiveCwd(cwd, session, reg) ==
    IF session # Nothing /\ ~Truthy(cwd)
    THEN Some(GetInstance(reg, session[1])[session[1]])
    ELSE cwd

\* the registry after the reads of the session directory the prefix makes
RegAfterRead(cwd, session, reg) ==
    IF session # Nothing /\ ~Truthy(cwd) THEN GetInstance(reg, session[1]) ELSE reg

\* session_id and command.strip().startswith("cd ") and len(args) > 1
IsCdCommand(command, session) ==
    /\ session # Nothing
    /\ StartsWith(Strip(command), <<"c", "d", " ">>)
    /\ Len(ShlexSplit(command).words) > 1

\* a slip: a relative target is not joined with the session directory
CdTargetNoJoin(arg, session_cwd) == NormPath(ExpandUser(arg))

\* the directory a cd names: join with the session directory when relative,
\* expanduser, normpath
CdTarget(arg, session_cwd) ==
    NormPath(ExpandUser(IF ~IsAbs(arg) THEN PathJoin(session_cwd, arg) ELSE arg))

\* a slip: the session is moved before the target is checked
CdStepStoresFirst(arg, sid, reg) ==
    LET target == NormPath(ExpandUser(IF ~IsAbs(arg)
                                      THEN PathJoin(GetInstance(reg, sid)[sid], arg)
                                      ELSE arg))
    IN  [ok |-> IsDir(target), target |-> target,
         reg |-> SessionSetDir(reg, sid, ExpandUser(target))]

\* a slip: a relative target is resolved against the directory the session
\* had at first, not the one it has now
CdStepStale(arg, sid, reg) ==
    LET target == CdTarget(arg, ProcessCwd)
        reg2 == IF IsAbs(arg) THEN reg ELSE GetInstance(reg, sid)
    IN  [ok |-> IsDir(target), target |-> target,
         reg |-> IF IsDir(target) THEN SessionSetDir(reg2, sid, ExpandUser(target))
                 ELSE reg2]

\* the cd special case of execute_command: whether the target is a
\* directory, the target, and the registry afterwards (get_working_dir is
\* called for a relative target only, set_working_dir when the target exists)
CdStep(arg, sid, reg) ==
    LET target == CdTarget(arg, GetInstance(reg, sid)[sid])
        reg2 == IF IsAbs(arg) THEN reg ELSE GetInstance(reg, sid)
    IN  [ok |-> IsDir(target), target |-> target,
         reg |-> IF IsDir(target) THEN SessionSetDir(reg2, sid, ExpandUser(target))
                 ELSE reg2]

\* a slip: the directory is checked to exist, not to be allowed
CwdProblemExistenceOnly(effective, allowed, excluded) ==
    IF ~Truthy(effective) THEN Nothing
    ELSE IF ~IsDir(effective[1])
         THEN Some(Msg("Working directory does not exist: {effective_cwd}",
                       Nothing, effective[1], ""))
    ELSE Nothing

\* the check of the working directory: Nothing, or the error it reports
CwdProblem(effective, allowed, excluded) ==
    IF ~Truthy(effective) THEN Nothing
    ELSE IF ~IsDir(effective[1])
         THEN Some(Msg("Working directory does not exist: {effective_cwd}",
                       Nothing, effective[1], ""))
    ELSE IF ~IsPathAllowed(effective[1], allowed, excluded)
         THEN Some(Msg("Working directory not allowed: {effective_cwd}",
                       Nothing, effective[1], ""))
    ELSE Nothing

\* the backquote character, written by name
Backquote == "backquote"

ShellOperators ==
    { <<"&", "&">>, <<"|", "|">>, <<"|">>, <<";">>, <<">">>, <<"<">>,
      <<"$", "(">>, <<Backquote>>, <<"$">> }

\* a slip: the operators are looked for among the shell words, not in the
\* command string
NeedsShellByWord(command) ==
    LET r == ShlexSplit(command)
    IN  \E i \in 1..Len(r.words) : r.words[i] \in ShellOperators

NeedsShell(command) == \E op \in ShellOperators : Contains(command, op)

\* EnhancedCommandExecutor.excluded_patterns after _add_default_exclusions
ExcludedPatterns ==
    << <<">">>, <<">", ">">>, <<"|">>, <<"&">>, <<"&", "&">>, <<"|", "|">>, <<";">>,
       <<Backquote>>, <<"$", "(">>, <<"$", "(", "(">>, <<"<", "(">>, <<">", "(">>,
       <<"<", "<", "<">> >>

\* EnhancedCommandExecutor.is_command_allowed: the base command, then the
\* patterns, are looked up
EnhancedIsCommandAllowed(command, excluded, patterns) ==
    LET r == ShlexSplit(command)
    IN  IF ~r.ok THEN FALSE
        ELSE IF r.words = << >> THEN FALSE
        ELSE IF InList(r.words[1], excluded) THEN FALSE
        ELSE ~\E i \in 1..Len(patterns) : Contains(command, patterns[i])

\* the cwd= argument of the spawn call of execute_command and of
\* execute_script_from_file: cwd for the shell, effective_cwd for exec
\* the argument vector of create_subprocess_exec(*args): shlex.split of the
\* command line; create_subprocess_shell gets a command line and no vector
ExecArgv(through_shell, command) ==
    IF through_shell THEN << >> ELSE ShlexSplit(command).words

SpawnCwd(through_shell, cwd, effective) == IF through_shell THEN cwd ELSE effective

\* a slip: the map of execute_script_from_file lacks an entry that the map of
\* get_available_languages has
LanguageKeysWithoutR ==
    << "python", "javascript", "typescript", "bash", "fish", "ruby", "php", "perl" >>

\* the keys of language_map of execute_script_from_file, in the order of the
\* dict
LanguageKeys ==
    << "python", "javascript", "typescript", "bash", "fish", "ruby", "php", "perl", "r" >>

\* language not in language_map: the languages that are accepted
Languages == { LanguageKeys[i] : i \in DOMAIN LanguageKeys }

\* get_available_languages(): list(language_map.keys()) of its own copy of
\* the map
GetAvailableLanguages ==
    << "python", "javascript", "typescript", "bash", "fish", "ruby", "php", "perl", "r" >>

\* language_map[language]["command"], as one word
LanguageCommand(language) ==
    CASE language = "python" -> <<"python">>
      [] language = "javascript" -> <<"node">>
      [] language = "typescript" -> <<"ts-node">>
      [] language = "bash" -> <<"bash">>
      [] language = "fish" -> <<"fish">>
      [] language = "ruby" -> <<"ruby">>
      [] language = "php" -> <<"php">>
      [] language = "perl" -> <<"perl">>
      [] OTHER -> <<"Rscript">>

\* temp.name, as one word
TempPath == <<"temp_path">>

\* special_interpreters
SpecialInterpreters == { <<"f", "i", "s", "h">> }

\* a character the utf-8 codec cannot encode (a lone surrogate)
Surrogate == "\\ud800"

\* temp.write(script) raises UnicodeEncodeError
WriteFails(script) == \E i \in 1..Len(script) : script[i] = Surrogate

(***************************************************************************)
(* str.encode("utf-8") and base64                                          *)
(***************************************************************************)
\* a character that UTF-8 encodes in two bytes, by name
EAcute == "e_acute"

RECURSIVE Utf8(_)
\* script.encode("utf-8") of a string without lone surrogates, as byte values
Utf8(str) ==
    IF str = << >> THEN << >>
    ELSE LET c == Head(str)
             bytes == CASE c = "a" -> <<97>>
                        [] c = "'" -> <<39>>
                        [] c = "\"" -> <<34>>
                        [] c = "$" -> <<36>>
                        [] c = Backquote -> <<96>>
                        [] c = EAcute -> <<195, 169>>
                        [] OTHER -> <<112>>
         IN  bytes \o Utf8(Tail(str))

RECURSIVE Utf8Decode(_)
\* the text of a byte sequence that is valid UTF-8
Utf8Decode(bytes) ==
    IF bytes = << >> THEN << >>
    ELSE LET b == Head(bytes)
         IN  IF b = 195 /\ Len(bytes) >= 2 /\ bytes[2] = 169
             THEN <<EAcute>> \o Utf8Decode(SubSeq(bytes, 3, Len(bytes)))
             ELSE << CASE b = 97 -> "a"
                       [] b = 39 -> "'"
                       [] b = 34 -> "\""
                       [] b = 36 -> "$"
                       [] b = 96 -> Backquote
                       [] OTHER -> "p" >> \o Utf8Decode(Tail(bytes))

\* the base64 alphabet, the character of the value v at position v + 1
B64Alphabet ==
    << "A", "B", "C", "D", "E", "F", "G", "H", "I", "J", "K", "L", "M",
       "N", "O", "P", "Q", "R", "S", "T", "U", "V", "W", "X", "Y", "Z",
       "a", "b", "c", "d", "e", "f", "g", "h", "i", "j", "k", "l", "m",
       "n", "o", "p", "q", "r", "s", "t", "u", "v", "w", "x", "y", "z",
       "0", "1", "2", "3", "4", "5", "6", "7", "8", "9", "+", "/" >>

B64Char(v) == B64Alphabet[v + 1]

B64Value(c) == (CHOOSE i \in DOMAIN B64Alphabet : B64Alphabet[i] = c) - 1

RECURSIVE B64Encode(_)
\* base64.b64encode: three bytes make four characters, a rest of one or two
\* bytes is padded with =
B64Encode(bytes) ==
    IF bytes = << >> THEN << >>
    ELSE IF Len(bytes) = 1
    THEN LET n == bytes[1] * 16
         IN  << B64Char(n \div 64), B64Char(n % 64), "=", "=" >>
    ELSE IF Len(bytes) = 2
    THEN LET n == (bytes[1] * 256 + bytes[2]) * 4
         IN  << B64Char(n \div 4096), B64Char((n \div 64) % 64), B64Char(n % 64), "=" >>
    ELSE LET n == bytes[1] * 65536 + bytes[2] * 256 + bytes[3]
         IN  << B64Char(n \div 262144), B64Char((n \div 4096) % 64),
                B64Char((n \div 64) % 64), B64Char(n % 64) >>
             \o B64Encode(SubSeq(bytes, 4, Len(bytes)))

RECURSIVE B64Decode(_)
\* base64 -d: four characters make three bytes, fewer with padding
B64Decode(chars) ==
    IF Len(chars) < 4 THEN << >>
    ELSE LET v(i) == IF chars[i] = "=" THEN 0 ELSE B64Value(chars[i])
             n == v(1) * 262144 + v(2) * 4096 + v(3) * 64 + v(4)
             three == << n \div 65536, (n \div 256) % 256, n % 256 >>
             kept == IF chars[3] = "=" THEN 1 ELSE IF chars[4] = "=" THEN 2 ELSE 3
         IN  SubSeq(three, 1, kept) \o B64Decode(SubSeq(chars, 5, Len(chars)))

\* a slip: the script is embedded as it is
FishPayloadRaw(script) == script

\* base64.b64encode(script.encode("utf-8")).decode("utf-8")
FishPayload(script) == B64Encode(Utf8(script))

\* the literal text of the fish command line before and after the payload
FishHead == <<" -c \"echo ">>

FishTail == <<" | base64 -d | fish\"">>

\* f'{interpreter} -c "echo {base64_script} | base64 -d | fish"'
FishCommand(interpreter, script) ==
    interpreter \o FishHead \o FishPayload(script) \o FishTail

\* _get_preferred_shell(): the shell the environment offers; the fallback
UserShell == <<"/bin/sh">>

\* f"{user_shell} -c '{command}'" of execute_command for a shell that is
\* neither zsh, bash nor fish
LoginCommandLine(command) == UserShell \o <<" -c '">> \o command \o <<"'">>

\* f"{user_shell} -l -c '{interpreter}'" of the script methods
LoginScriptLine(text) == UserShell \o <<" -l -c '">> \o text \o <<"'">>

\* the first argument of create_subprocess_shell in execute_command; none
\* when the command is exec'd
CommandLine(through_shell, login, command) ==
    IF ~through_shell THEN Empty
    ELSE IF login THEN LoginCommandLine(command)
    ELSE command

(***************************************************************************)
(* State                                                                   *)
(***************************************************************************)
VARIABLES
    excluded_commands,  \* CommandExecutor.excluded_commands, a list
    allowed_paths,      \* PermissionManager: allowed paths
    excluded_paths,     \* PermissionManager: excluded paths
    sessions,           \* SessionManager registry: session id -> directory
    pc,                 \* per task: where the invocation stands
    call,               \* per task: the arguments of the invocation
    frame,              \* per task: the locals the spawn call is made with
    proc,               \* per task: the subprocess of the invocation
    results,            \* per task: the CommandResults returned to the caller
    spawns,             \* per task: subprocesses created by the invocation
    temp_files,         \* temporary script files that exist, by owning task
    replies,            \* per task: the string its tool returned to the client
    registered,         \* the tools registered with the MCP server, and the
                        \* list the last registration call returned
    browser,            \* the browser-use server of the MCPServerManager
    strict_excluded     \* EnhancedCommandExecutor.excluded_commands, a list

vars ==
    << excluded_commands, allowed_paths, excluded_paths, sessions, pc, call,
       frame, proc, results, spawns, temp_files, replies, registered, browser,
       strict_excluded >>

Tasks == {"t1", "t2"}

NoCall ==
    [op |-> "none", text |-> Empty, interp |-> Empty, language |-> "",
     cwd |-> Nothing, timeout |-> Nothing, login |-> FALSE, session |-> Nothing]

NoFrame ==
    [via |-> "none", shell |-> FALSE, cwd |-> Nothing, stdin |-> FALSE, temp |-> FALSE,
     argv |-> << >>, line |-> Empty]

NoProc ==
    [state |-> "none", shell |-> FALSE, cwd |-> Nothing, stdin |-> FALSE,
     argv |-> << >>, input |-> Nothing, rc |-> 0, stdout |-> Empty, stderr |-> Empty]

\* the directory a subprocess runs in: the cwd= it was created with, the
\* directory of the server process when that was None
ProcDir(p) == IF p.cwd = Nothing THEN ProcessCwd ELSE p.cwd[1]

\* a slip: a list of dangerous commands that leaves out rm
DangerousCommandsWithoutRm ==
    << <<"r", "m", "d", "i", "r">>, <<"m", "v">>, <<"c", "p">>, <<"d", "d">>,
       <<"s", "u", "d", "o">>, <<"c", "u", "r", "l">> >>

\* EnhancedCommandExecutor.excluded_commands after _add_default_exclusions
DangerousCommands ==
    << <<"r", "m">>, <<"r", "m", "d", "i", "r">>, <<"m", "v">>, <<"c", "p">>,
       <<"d", "d">>, <<"m", "k", "f", "s">>, <<"f", "d", "i", "s", "k">>,
       <<"f", "o", "r", "m", "a", "t">>, <<"c", "h", "m", "o", "d">>,
       <<"c", "h", "o", "w", "n">>, <<"c", "h", "g", "r", "p">>, <<"s", "u", "d", "o">>,
       <<"s", "u">>, <<"p", "a", "s", "s", "w", "d">>,
       <<"m", "k", "p", "a", "s", "s", "w", "d">>, <<"s", "s", "h">>, <<"s", "c", "p">>,
       <<"s", "f", "t", "p">>, <<"f", "t", "p">>, <<"c", "u", "r", "l">>,
       <<"w", "g", "e", "t">>, <<"n", "c">>, <<"n", "e", "t", "c", "a", "t">>,
       <<"m", "o", "u", "n", "t">>, <<"u", "m", "o", "u", "n", "t">>, <<"a", "p", "t">>,
       <<"a", "p", "t", "-", "g", "e", "t">>, <<"y", "u", "m">>, <<"d", "n", "f">>,
       <<"b", "r", "e", "w">>, <<"s", "y", "s", "t", "e", "m", "c", "t", "l">>,
       <<"s", "e", "r", "v", "i", "c", "e">> >>

\* a FastMCP server with no tool
NoTools == [server |-> { }, returned |-> << >>]

\* the browser-use server as the manager knows it: whether it is configured,
\* whether it runs, the calls of start_server and stop_server made so far, the
\* call the interface is awaiting, and what the interface returned last
NoBrowser ==
    [available |-> TRUE, running |-> FALSE, starts |-> 0, stops |-> 0,
     pending |-> "none", reply |-> "none"]

Init ==
    /\ excluded_commands = << <<"r", "m">> >>
    /\ allowed_paths = { << <<"a">> >> }
    /\ excluded_paths = { << <<"a">>, <<"b">> >> }
    /\ sessions = << >>
    /\ pc = [t \in Tasks |-> "idle"]
    /\ call = [t \in Tasks |-> NoCall]
    /\ frame = [t \in Tasks |-> NoFrame]
    /\ proc = [t \in Tasks |-> NoProc]
    /\ results = [t \in Tasks |-> << >>]
    /\ spawns = [t \in Tasks |-> 0]
    /\ temp_files = { }
    /\ replies = [t \in Tasks |-> Nothing]
    /\ registered = NoTools
    /\ browser = NoBrowser
    /\ strict_excluded = DangerousCommands

\* a temporary file no invocation owns any more
Orphan == "orphan"

\* a slip: one lock for the executor, held by the invocation in flight
FreeUnderLock(t) == \A u \in Tasks : pc[u] = "idle"

\* the task runs no invocation
Free(t) == pc[t] = "idle"

(***************************************************************************)
(* The ways the synchronous prefix of an invocation ends                   *)
(***************************************************************************)
\* return CommandResult(...) before anything is spawned
Finish(t, c, res, reg) ==
    /\ pc' = [pc EXCEPT ![t] = "returned"]
    /\ call' = [call EXCEPT ![t] = c]
    /\ results' = [results EXCEPT ![t] = <<res>>]
    /\ sessions' = reg
    /\ frame' = [frame EXCEPT ![t] = NoFrame]
    /\ proc' = [proc EXCEPT ![t] = NoProc]
    /\ spawns' = [spawns EXCEPT ![t] = 0]
    /\ replies' = [replies EXCEPT ![t] = Nothing]

\* an exception leaves the method
Raise(t, c, reg) ==
    /\ pc' = [pc EXCEPT ![t] = "raised"]
    /\ call' = [call EXCEPT ![t] = c]
    /\ results' = [results EXCEPT ![t] = << >>]
    /\ sessions' = reg
    /\ frame' = [frame EXCEPT ![t] = NoFrame]
    /\ proc' = [proc EXCEPT ![t] = NoProc]
    /\ spawns' = [spawns EXCEPT ![t] = 0]
    /\ replies' = [replies EXCEPT ![t] = Nothing]

\* await asyncio.create_subprocess_shell / create_subprocess_exec
AwaitSpawn(t, c, fr, reg) ==
    /\ pc' = [pc EXCEPT ![t] = "spawning"]
    /\ call' = [call EXCEPT ![t] = c]
    /\ results' = [results EXCEPT ![t] = << >>]
    /\ sessions' = reg
    /\ frame' = [frame EXCEPT ![t] = fr]
    /\ proc' = [proc EXCEPT ![t] = NoProc]
    /\ spawns' = [spawns EXCEPT ![t] = 0]
    /\ replies' = [replies EXCEPT ![t] = Nothing]

\* the except Exception handlers: the message each method wraps str(e) in
ErrorFmt(via) ==
    CASE via = "command" -> "Error executing command: {e}"
      [] via = "fish" -> "Error executing Fish script: {e}"
      [] OTHER -> "Error executing script: {e}"

\* the message of the except asyncio.TimeoutError handlers
TimeoutMsg(via, timeout, command) ==
    CASE via = "command" ->
            Msg("Command timed out after {timeout} seconds: {command}", timeout, command, "")
      [] via = "fish" ->
            Msg("Fish script execution timed out after {timeout} seconds", timeout, Empty, "")
      [] OTHER ->
            Msg("Script execution timed out after {timeout} seconds", timeout, Empty, "")

(***************************************************************************)
(* CommandExecutor.execute_command, from the call to the first await       *)
(***************************************************************************)
ExecuteCommand(t, command, cwd, timeout, login, session) ==
    LET c == [op |-> "execute_command", text |-> command, interp |-> Empty,
              language |-> "", cwd |-> cwd, timeout |-> timeout, login |-> login,
              session |-> session]
        effective == EffectiveCwd(cwd, session, sessions)
        reg == RegAfterRead(cwd, session, sessions)
    IN  /\ Free(t)
        /\ UNCHANGED <<registered, browser, strict_excluded, excluded_commands, allowed_paths, excluded_paths, temp_files>>
        /\ IF ~IsCommandAllowed(command, excluded_commands)
           THEN Finish(t, c, Failure(1, Msg("Command not allowed: {command}",
                                            Nothing, command, "")), sessions)
           ELSE IF IsCdCommand(command, session)
           THEN LET cd == CdStep(ShlexSplit(command).words[2], session[1], reg)
                IN  IF cd.ok
                    THEN Finish(t, c, CommandResult(0, Empty, Empty, Nothing), cd.reg)
                    ELSE Finish(t, c, Failure(1, Msg("Directory does not exist: {target_dir}",
                                                     Nothing, cd.target, "")), cd.reg)
           ELSE LET problem == CwdProblem(effective, allowed_paths, excluded_paths)
                    shell == NeedsShell(command) \/ login
                IN  IF problem # Nothing
                    THEN Finish(t, c, Failure(1, problem[1]), reg)
                    ELSE AwaitSpawn(t, c,
                                    [via |-> "command", shell |-> shell,
                                     cwd |-> SpawnCwd(shell, cwd, effective),
                                     stdin |-> FALSE, temp |-> FALSE,
                                     argv |-> ExecArgv(shell, command),
                                     line |-> CommandLine(shell, login, command)],
                                    reg)

\* a slip: the interpreter is looked up in the denylist as a command is
ExecuteScriptDenylisted(t, script, interpreter, cwd, timeout, login, session) ==
    LET c == [op |-> "execute_script", text |-> script, interp |-> interpreter,
              language |-> "", cwd |-> cwd, timeout |-> timeout, login |-> login,
              session |-> session]
        effective == EffectiveCwd(cwd, session, sessions)
        reg == RegAfterRead(cwd, session, sessions)
        problem == CwdProblem(effective, allowed_paths, excluded_paths)
        parts == SplitWs(interpreter, Empty)
    IN  /\ Free(t)
        /\ UNCHANGED <<registered, browser, strict_excluded, excluded_commands, allowed_paths, excluded_paths, temp_files>>
        /\ IF ~IsCommandAllowed(interpreter, excluded_commands)
           THEN Finish(t, c, Failure(1, Msg("Command not allowed: {command}",
                                            Nothing, interpreter, "")), reg)
           ELSE IF problem # Nothing
           THEN Finish(t, c, Failure(1, problem[1]), reg)
           ELSE IF parts = << >>
           THEN \* interpreter.split()[0]: IndexError
                Raise(t, c, reg)
           ELSE IF Lower(parts[1]) \in SpecialInterpreters
           THEN IF WriteFails(script)
                THEN \* script.encode("utf-8") raises inside the handler's try
                     Finish(t, c, Failure(1, Msg(ErrorFmt("fish"), Nothing, Empty,
                                                 "UnicodeEncodeError")), reg)
                ELSE AwaitSpawn(t, c, [via |-> "fish", shell |-> TRUE, cwd |-> effective,
                                       stdin |-> FALSE, temp |-> FALSE,
                                       argv |-> << >>,
                                       line |-> FishCommand(interpreter, script)], reg)
           ELSE IF login
           THEN AwaitSpawn(t, c, [via |-> "stdin", shell |-> TRUE, cwd |-> effective,
                                  stdin |-> FALSE, temp |-> FALSE,
                                  argv |-> << >>,
                                  line |-> LoginScriptLine(interpreter)], reg)
           ELSE IF ~ShlexSplit(interpreter).ok
           THEN Finish(t, c, Failure(1, Msg("Error executing script: {e}",
                                            Nothing, Empty, "ValueError")), reg)
           ELSE AwaitSpawn(t, c, [via |-> "stdin", shell |-> FALSE, cwd |-> effective,
                                  stdin |-> TRUE, temp |-> FALSE,
                                  argv |-> ExecArgv(FALSE, interpreter),
                                  line |-> Empty], reg)

(***************************************************************************)
(* CommandExecutor.execute_script with _execute_script_with_stdin and      *)
(* _handle_fish_script, from the call to the first await                   *)
(***************************************************************************)
ExecuteScript(t, script, interpreter, cwd, timeout, login, session) ==
    LET c == [op |-> "execute_script", text |-> script, interp |-> interpreter,
              language |-> "", cwd |-> cwd, timeout |-> timeout, login |-> login,
              session |-> session]
        effective == EffectiveCwd(cwd, session, sessions)
        reg == RegAfterRead(cwd, session, sessions)
        problem == CwdProblem(effective, allowed_paths, excluded_paths)
        parts == SplitWs(interpreter, Empty)
    IN  /\ Free(t)
        /\ UNCHANGED <<registered, browser, strict_excluded, excluded_commands, allowed_paths, excluded_paths, temp_files>>
        /\ IF problem # Nothing
           THEN Finish(t, c, Failure(1, problem[1]), reg)
           ELSE IF parts = << >>
           THEN \* interpreter.split()[0]: IndexError
                Raise(t, c, reg)
           ELSE IF Lower(parts[1]) \in SpecialInterpreters
           THEN IF WriteFails(script)
                THEN \* script.encode("utf-8") raises inside the handler's try
                     Finish(t, c, Failure(1, Msg(ErrorFmt("fish"), Nothing, Empty,
                                                 "UnicodeEncodeError")), reg)
                ELSE AwaitSpawn(t, c, [via |-> "fish", shell |-> TRUE, cwd |-> effective,
                                       stdin |-> FALSE, temp |-> FALSE,
                                       argv |-> << >>,
                                       line |-> FishCommand(interpreter, script)], reg)
           ELSE IF login
           THEN AwaitSpawn(t, c, [via |-> "stdin", shell |-> TRUE, cwd |-> effective,
                                  stdin |-> FALSE, temp |-> FALSE,
                                  argv |-> << >>,
                                  line |-> LoginScriptLine(interpreter)], reg)
           ELSE IF ~ShlexSplit(interpreter).ok
           THEN Finish(t, c, Failure(1, Msg("Error executing script: {e}",
                                            Nothing, Empty, "ValueError")), reg)
           ELSE AwaitSpawn(t, c, [via |-> "stdin", shell |-> FALSE, cwd |-> effective,
                                  stdin |-> TRUE, temp |-> FALSE,
                                  argv |-> ExecArgv(FALSE, interpreter),
                                  line |-> Empty], reg)

(***************************************************************************)
(* CommandExecutor.execute_script_from_file, from the call to the first    *)
(* await.  tmp_ok: the temporary file can be created.                      *)
(***************************************************************************)
ExecuteScriptFromFile(t, script, language, cwd, timeout, login, session, tmp_ok) ==
    LET c == [op |-> "execute_script_from_file", text |-> script, interp |-> Empty,
              language |-> language, cwd |-> cwd, timeout |-> timeout,
              login |-> login, session |-> session]
        effective == EffectiveCwd(cwd, session, sessions)
        reg == RegAfterRead(cwd, session, sessions)
    IN  /\ Free(t)
        /\ UNCHANGED <<registered, browser, strict_excluded, excluded_commands, allowed_paths, excluded_paths>>
        /\ IF language \notin Languages
           THEN /\ Finish(t, c, Failure(1, Msg("Unsupported language: {language}. Supported languages: {languages}",
                                               Nothing, LanguageKeys, "")), reg)
                /\ UNCHANGED temp_files
           ELSE IF ~tmp_ok
           THEN \* tempfile.NamedTemporaryFile raises OSError
                /\ Raise(t, c, reg)
                /\ UNCHANGED temp_files
           ELSE IF WriteFails(script)
           THEN \* temp.write raises UnicodeEncodeError; the file stays, under a
                \* name no later invocation gets
                /\ Raise(t, c, reg)
                /\ temp_files' = temp_files \cup {Orphan}
           ELSE /\ AwaitSpawn(t, c, [via |-> "file", shell |-> login,
                                     cwd |-> SpawnCwd(login, cwd, effective),
                                     stdin |-> FALSE, temp |-> TRUE,
                                     argv |-> IF login THEN << >>
                                              ELSE <<LanguageCommand(language), TempPath>>,
                                     line |-> IF login
                                              THEN LoginScriptLine(LanguageCommand(language)
                                                                   \o <<" ">> \o TempPath)
                                              ELSE Empty],
                                    reg)
                /\ temp_files' = temp_files \cup {t}

(***************************************************************************)
(* After the first await                                                   *)
(***************************************************************************)
\* a slip: no cleanup
UnlinkTempSkipped(files, t, fr) == files

\* finally: os.unlink(temp_path), errors ignored
UnlinkTemp(files, t, fr) == IF fr.temp THEN files \ {t} ELSE files

\* a slip: the process is left running
KillSkipped(p) == p

\* process.kill(); ProcessLookupError of a process that is gone is ignored
Kill(p) == IF p.state = "running" THEN [p EXCEPT !.state = "killed"] ELSE p

\* what a subprocess can end with: exit code, stdout, stderr
ProcOutcomes ==
    { [rc |-> 0, stdout |-> <<"o">>, stderr |-> Empty],
      [rc |-> 1, stdout |-> Empty, stderr |-> <<"e">>] }

\* a child process can be started with this cwd= argument
CanRunIn(cwd) == IF cwd = Nothing THEN TRUE ELSE IsDir(cwd[1])

\* script.encode("utf-8") of _execute_script_with_stdin raises
\* UnicodeEncodeError once the process exists; _handle_fish_script encodes
\* before it spawns
EncodeFailsAfterSpawn(fr, c) == fr.via = "stdin" /\ WriteFails(c.text)

\* process.communicate(script_bytes) is called on a process that was created
\* without stdin=PIPE (the login-shell branch of _execute_script_with_stdin)
FeedWithoutPipe(fr) == fr.via = "stdin" /\ ~fr.stdin

\* what the process reads on its standard input from the executor: the script
\* when communicate(script_bytes) has a pipe to write it to, else nothing
FedInput(fr, c) ==
    IF fr.via = "stdin" /\ fr.stdin /\ ~WriteFails(c.text) THEN Some(c.text) ELSE Nothing

\* the spawn call returns a process; the code up to the next await runs.
\* feed_raises: communicate(input) without a stdin pipe raises AttributeError
\* (asyncio up to Python 3.11) instead of dropping the input (later versions)
SpawnOk(t, feed_raises) ==
    /\ pc[t] = "spawning"
    /\ CanRunIn(frame[t].cwd)
    /\ feed_raises => FeedWithoutPipe(frame[t]) /\ ~EncodeFailsAfterSpawn(frame[t], call[t])
    /\ proc' = [proc EXCEPT ![t] = [state |-> "running", shell |-> frame[t].shell,
                                    cwd |-> frame[t].cwd, stdin |-> frame[t].stdin,
                                    argv |-> frame[t].argv,
                                    input |-> FedInput(frame[t], call[t]),
                                    rc |-> 0, stdout |-> Empty, stderr |-> Empty]]
    /\ spawns' = [spawns EXCEPT ![t] = @ + 1]
    /\ IF EncodeFailsAfterSpawn(frame[t], call[t])
       THEN /\ pc' = [pc EXCEPT ![t] = "returned"]
            /\ results' = [results EXCEPT ![t] =
                              <<Failure(1, Msg(ErrorFmt(frame[t].via), Nothing, Empty,
                                               "UnicodeEncodeError"))>>]
       ELSE IF feed_raises
       THEN /\ pc' = [pc EXCEPT ![t] = "returned"]
            /\ results' = [results EXCEPT ![t] =
                              <<Failure(1, Msg(ErrorFmt(frame[t].via), Nothing, Empty,
                                               "AttributeError"))>>]
       ELSE /\ pc' = [pc EXCEPT ![t] = "waiting"]
            /\ UNCHANGED results
    /\ UNCHANGED <<registered, browser, strict_excluded, replies, excluded_commands, allowed_paths, excluded_paths, sessions, call,
                   frame, temp_files>>

\* the spawn call raises (the cwd is no directory, the program is not found,
\* the system cannot fork): except Exception returns a result
SpawnFails(t) ==
    /\ pc[t] = "spawning"
    /\ pc' = [pc EXCEPT ![t] = "returned"]
    /\ results' = [results EXCEPT ![t] =
                      <<Failure(1, Msg(ErrorFmt(frame[t].via), Nothing, Empty, "OSError"))>>]
    /\ temp_files' = UnlinkTemp(temp_files, t, frame[t])
    /\ UNCHANGED <<registered, browser, strict_excluded, replies, excluded_commands, allowed_paths, excluded_paths, sessions, call,
                   frame, proc, spawns>>

\* the subprocess ends by itself; a script may have removed its own file
ProcessExits(t, outcome, removes_file) ==
    /\ proc[t].state = "running"
    /\ removes_file => frame[t].temp
    /\ proc' = [proc EXCEPT ![t] = [@ EXCEPT !.state = "exited", !.rc = outcome.rc,
                                             !.stdout = outcome.stdout,
                                             !.stderr = outcome.stderr]]
    /\ temp_files' = IF removes_file THEN temp_files \ {t} ELSE temp_files
    /\ UNCHANGED <<registered, browser, strict_excluded, replies, excluded_commands, allowed_paths, excluded_paths, sessions, pc, call,
                   frame, results, spawns>>

\* wait_for(process.communicate(), timeout) returns the output
Completes(t) ==
    /\ pc[t] = "waiting"
    /\ proc[t].state = "exited"
    /\ pc' = [pc EXCEPT ![t] = "returned"]
    /\ results' = [results EXCEPT ![t] =
                      <<CommandResult(proc[t].rc, proc[t].stdout, proc[t].stderr, Nothing)>>]
    /\ temp_files' = UnlinkTemp(temp_files, t, frame[t])
    /\ UNCHANGED <<registered, browser, strict_excluded, replies, excluded_commands, allowed_paths, excluded_paths, sessions, call,
                   frame, proc, spawns>>

\* wait_for raises asyncio.TimeoutError
TimesOut(t) ==
    /\ pc[t] = "waiting"
    /\ call[t].timeout # Nothing
    /\ proc' = [proc EXCEPT ![t] = Kill(@)]
    /\ pc' = [pc EXCEPT ![t] = "returned"]
    /\ results' = [results EXCEPT ![t] =
                      <<Failure(-1, TimeoutMsg(frame[t].via, call[t].timeout, call[t].text))>>]
    /\ temp_files' = UnlinkTemp(temp_files, t, frame[t])
    /\ UNCHANGED <<registered, browser, strict_excluded, replies, excluded_commands, allowed_paths, excluded_paths, sessions, call,
                   frame, spawns>>

\* the text of an f-string error message: its literal part, then the values
\* it holds
RenderMsg(m) ==
    <<m.fmt>> \o (IF m.timeout = Nothing THEN Empty ELSE m.timeout) \o m.arg
              \o (IF m.exc = "" THEN Empty ELSE <<m.exc>>)

\* str(return_code)
IntStr(n) == CASE n = 0 -> "0" [] n = 1 -> "1" [] n = -1 -> "-1" [] OTHER -> "n"

\* CommandResult.format_output
FormatOutput(r, include_exit_code) ==
    JoinWith(
        (IF r.error_message # Nothing
         THEN << <<"Error: ">> \o RenderMsg(r.error_message[1]) >> ELSE << >>)
        \o (IF include_exit_code /\ (r.return_code # 0 \/ r.error_message = Nothing)
            THEN << <<"Exit code: ", IntStr(r.return_code)>> >> ELSE << >>)
        \o (IF r.stdout # Empty THEN << <<"STDOUT:\n">> \o r.stdout >> ELSE << >>)
        \o (IF r.stderr # Empty THEN << <<"STDERR:\n">> \o r.stderr >> ELSE << >>),
        <<"\n\n">>)

\* the tools that call the executor
ToolNames == { "run_command", "run_script", "script_tool", "RunScriptTool" }

\* the executor method a tool calls
ToolMethod(tool) ==
    CASE tool = "run_command" -> "execute_command"
      [] tool = "script_tool" -> "execute_script_from_file"
      [] OTHER -> "execute_script"

\* what a tool returns for the CommandResult it got: run_command, run_script
\* and script_tool of register_tools, and RunScriptTool.call
ToolReply(tool, r) ==
    IF tool = "RunScriptTool"
    THEN IF IsSuccess(r)
         THEN IF r.stderr # Empty
              THEN <<"Script executed successfully.\n\nSTDOUT:\n">> \o r.stdout
                   \o <<"\n\nSTDERR:\n">> \o r.stderr
              ELSE r.stdout
         ELSE FormatOutput(r, TRUE)
    ELSE IF IsSuccess(r) THEN r.stdout ELSE FormatOutput(r, TRUE)

\* the caller takes the result (or the exception) of its await; a tool
\* returns its string ("none": the executor was called without a tool)
CallerResumes(t, tool) ==
    /\ pc[t] \in {"returned", "raised"}
    /\ tool # "none" => ToolMethod(tool) = call[t].op
    \* the register_tools wrappers pass a session id, RunScriptTool.call none
    /\ tool = "RunScriptTool" => call[t].session = Nothing
    /\ tool \in {"run_command", "run_script", "script_tool"} => call[t].session # Nothing
    /\ replies' = [replies EXCEPT ![t] =
                      IF tool = "none" \/ pc[t] = "raised" THEN Nothing
                      ELSE Some(ToolReply(tool, results[t][1]))]
    /\ pc' = [pc EXCEPT ![t] = "idle"]
    /\ call' = [call EXCEPT ![t] = NoCall]
    /\ frame' = [frame EXCEPT ![t] = NoFrame]
    /\ proc' = [proc EXCEPT ![t] = NoProc]
    /\ results' = [results EXCEPT ![t] = << >>]
    /\ spawns' = [spawns EXCEPT ![t] = 0]
    /\ UNCHANGED <<registered, browser, strict_excluded, excluded_commands, allowed_paths, excluded_paths, sessions, temp_files>>

(***************************************************************************)
(* Configuration and session operations                                    *)
(***************************************************************************)
AllowCommand(command) ==
    /\ excluded_commands' = IF InList(command, excluded_commands)
                            THEN ListRemove(excluded_commands, command)
                            ELSE excluded_commands
    /\ UNCHANGED <<registered, browser, strict_excluded, replies, allowed_paths, excluded_paths, sessions, pc, call, frame, proc,
                   results, spawns, temp_files>>

\* a slip: the command is appended whether it is in the list or not
DenyCommandAlways(command) ==
    /\ excluded_commands' = Append(excluded_commands, command)
    /\ UNCHANGED <<registered, browser, strict_excluded, replies, allowed_paths, excluded_paths, sessions, pc, call, frame, proc,
                   results, spawns, temp_files>>

DenyCommand(command) ==
    /\ excluded_commands' = IF ~InList(command, excluded_commands)
                            THEN Append(excluded_commands, command)
                            ELSE excluded_commands
    /\ UNCHANGED <<registered, browser, strict_excluded, replies, allowed_paths, excluded_paths, sessions, pc, call, frame, proc,
                   results, spawns, temp_files>>

\* a slip: every session id is given the one record of "s1"
SetWorkingDirShared(sid, path) ==
    /\ sessions' = SessionSetDir(sessions, "s1", ExpandUser(path))
    /\ UNCHANGED <<registered, browser, strict_excluded, replies, excluded_commands, allowed_paths, excluded_paths, pc, call, frame,
                   proc, results, spawns, temp_files>>

\* CommandExecutor.set_working_dir
SetWorkingDir(sid, path) ==
    /\ sessions' = SessionSetDir(sessions, sid, ExpandUser(path))
    /\ UNCHANGED <<registered, browser, strict_excluded, replies, excluded_commands, allowed_paths, excluded_paths, pc, call, frame,
                   proc, results, spawns, temp_files>>

\* CommandExecutor.get_working_dir
GetWorkingDir(reg, sid) == GetInstance(reg, sid)[sid]

\* a call of get_working_dir: get_session_manager makes the record of a
\* session id that had none
GetWorkingDirCall(sid) ==
    /\ sessions' = GetInstance(sessions, sid)
    /\ UNCHANGED <<registered, browser, strict_excluded, replies, excluded_commands, allowed_paths, excluded_paths, pc, call, frame,
                   proc, results, spawns, temp_files>>

\* add_allowed_path: the server adds every allowed path to the permission
\* manager and to the document context, which keep the same set
AddAllowedPath(path) ==
    /\ allowed_paths' = allowed_paths \cup {ResolveComps(path)}
    /\ UNCHANGED <<registered, browser, strict_excluded, excluded_commands, excluded_paths, sessions, pc, call, frame, proc,
                   results, spawns, temp_files, replies>>

\* PermissionManager.exclude_path
ExcludePath(path) ==
    /\ excluded_paths' = excluded_paths \cup {ResolveComps(path)}
    /\ UNCHANGED <<registered, browser, strict_excluded, excluded_commands, allowed_paths, sessions, pc, call, frame, proc,
                   results, spawns, temp_files, replies>>

\* a tool returns without calling the executor
ToolReturns(t, text) ==
    /\ replies' = [replies EXCEPT ![t] = Some(text)]
    /\ UNCHANGED <<registered, browser, strict_excluded, excluded_commands, allowed_paths, excluded_paths, sessions, pc, call,
                   frame, proc, results, spawns, temp_files>>

\* RunScriptTool.call, from the call to the first await of the executor: the
\* checks of the cwd parameter, then execute_script
RunScriptToolCall(t, script, interpreter, cwd, login) ==
    /\ Free(t)
    /\ IF ~Truthy(cwd)
       THEN ToolReturns(t, <<"Error: Parameter 'cwd' is required but was None">>)
       ELSE IF Strip(cwd[1]) = Empty
       THEN ToolReturns(t, <<"Error: Parameter 'cwd' cannot be empty">>)
       ELSE IF ~IsPathAllowed(cwd[1], allowed_paths, excluded_paths)
       THEN ToolReturns(t, <<"Error: Working directory not allowed: ">> \o cwd[1])
       ELSE IF ~IsDir(cwd[1])
       THEN ToolReturns(t, <<"Error: Working directory does not exist: ">> \o cwd[1])
       ELSE ExecuteScript(t, script, interpreter, cwd, Some("30.0"), login, Nothing)

(***************************************************************************)
(* EnhancedCommandExecutor: the strict variant                             *)
(***************************************************************************)
\* the check of the cwd argument: Nothing, or the error it reports
EnhancedCwdProblem(cwd, allowed, excluded) ==
    IF ~Truthy(cwd) THEN Nothing
    ELSE IF ~IsDir(cwd[1])
         THEN Some(Msg("Working directory does not exist: {cwd}", Nothing, cwd[1], ""))
    ELSE IF ~IsPathAllowed(cwd[1], allowed, excluded)
         THEN Some(Msg("Working directory not allowed: {cwd}", Nothing, cwd[1], ""))
    ELSE Nothing

\* a slip: a command with a shell operator is given to the shell
EnhancedSpawnFrameViaShell(command, cwd) ==
    [via |-> "command", shell |-> NeedsShell(command), cwd |-> cwd, stdin |-> FALSE,
     temp |-> FALSE, argv |-> ExecArgv(NeedsShell(command), command),
     line |-> CommandLine(NeedsShell(command), FALSE, command)]

\* create_subprocess_exec(*shlex.split(command), cwd=cwd)
EnhancedSpawnFrame(command, cwd) ==
    [via |-> "command", shell |-> FALSE, cwd |-> cwd, stdin |-> FALSE, temp |-> FALSE,
     argv |-> ShlexSplit(command).words, line |-> Empty]

\* EnhancedCommandExecutor.execute_command, from the call to the first await
EnhancedExecuteCommand(t, command, cwd, timeout) ==
    LET c == [op |-> "enhanced_execute_command", text |-> command, interp |-> Empty,
              language |-> "", cwd |-> cwd, timeout |-> timeout, login |-> FALSE,
              session |-> Nothing]
        problem == EnhancedCwdProblem(cwd, allowed_paths, excluded_paths)
    IN  /\ Free(t)
        /\ UNCHANGED <<registered, browser, strict_excluded, excluded_commands,
                       allowed_paths, excluded_paths, temp_files>>
        /\ IF ~EnhancedIsCommandAllowed(command, strict_excluded, ExcludedPatterns)
           THEN Finish(t, c, Failure(1, Msg("Command not allowed: {command}",
                                            Nothing, command, "")), sessions)
           ELSE IF problem # Nothing
           THEN Finish(t, c, Failure(1, problem[1]), sessions)
           ELSE AwaitSpawn(t, c, EnhancedSpawnFrame(command, cwd), sessions)

\* EnhancedCommandExecutor.allow_command
EnhancedAllowCommand(command) ==
    /\ strict_excluded' = IF InList(command, strict_excluded)
                          THEN ListRemove(strict_excluded, command)
                          ELSE strict_excluded
    /\ UNCHANGED <<registered, browser, replies, excluded_commands, allowed_paths,
                   excluded_paths, sessions, pc, call, frame, proc, results, spawns,
                   temp_files>>

\* EnhancedCommandExecutor.deny_command
EnhancedDenyCommand(command) ==
    /\ strict_excluded' = IF ~InList(command, strict_excluded)
                          THEN Append(strict_excluded, command)
                          ELSE strict_excluded
    /\ UNCHANGED <<registered, browser, replies, excluded_commands, allowed_paths,
                   excluded_paths, sessions, pc, call, frame, proc, results, spawns,
                   temp_files>>

(***************************************************************************)
(* Registration of the filesystem tools.  A tool instance is named by the  *)
(* key of its class in tool_classes.                                       *)
(***************************************************************************)
\* the keys of tool_classes
ToolClasses ==
    { "read", "write", "edit", "multi_edit", "directory_tree", "grep", "grep_ast",
      "git_search", "content_replace", "batch_search", "find_files", "unified_search",
      "watch", "diff" }

\* a slip: the write tool is among the read-only tools
GetReadOnlyWithWrite(project_manager) ==
    <<"read", "write", "directory_tree", "grep", "grep_ast", "git_search", "find_files",
      "watch", "diff">>
    \o (IF project_manager THEN <<"unified_search">> ELSE << >>)

\* project_manager: one was given (it is truthy)
GetReadOnlyFilesystemTools(project_manager) ==
    <<"read", "directory_tree", "grep", "grep_ast", "git_search", "find_files", "watch",
      "diff">>
    \o (IF project_manager THEN <<"unified_search">> ELSE << >>)

GetFilesystemTools(project_manager) ==
    <<"read", "write", "edit", "multi_edit", "directory_tree", "grep", "content_replace",
      "grep_ast", "git_search", "find_files", "watch", "diff">>
    \o (IF project_manager THEN <<"unified_search">> ELSE << >>)

RECURSIVE EnabledToolList(_)
\* the loop over enabled_tools.items(): a list of <<tool_name, enabled>>
EnabledToolList(items) ==
    IF items = << >> THEN << >>
    ELSE (IF Head(items)[2] /\ Head(items)[1] \in ToolClasses
          THEN <<Head(items)[1]>> ELSE << >>)
         \o EnabledToolList(Tail(items))

\* the list tools of register_filesystem_tools; enabled_tools is None or a dict
FilesystemTools(disable_write_tools, disable_search_tools, enabled_tools, project_manager) ==
    IF enabled_tools # Nothing /\ enabled_tools[1] # << >>
    THEN EnabledToolList(enabled_tools[1])
    ELSE IF disable_write_tools /\ disable_search_tools
    THEN <<"read", "directory_tree">>
    ELSE IF disable_write_tools
    THEN GetReadOnlyFilesystemTools(project_manager)
    ELSE IF disable_search_tools
    THEN <<"read", "write", "edit", "multi_edit", "directory_tree", "content_replace">>
    ELSE GetFilesystemTools(project_manager)

\* ToolRegistry.register_tools: each tool of the list registers itself
RegisterTools(server, tools) == server \cup { tools[i] : i \in DOMAIN tools }

RegisterFilesystemTools(disable_write_tools, disable_search_tools, enabled_tools, project_manager) ==
    LET tools == FilesystemTools(disable_write_tools, disable_search_tools, enabled_tools,
                                 project_manager)
    IN  /\ registered' = [server |-> RegisterTools(registered.server, tools),
                          returned |-> tools]
        /\ UNCHANGED <<excluded_commands, allowed_paths, excluded_paths, sessions, pc, call,
                       frame, proc, results, spawns, temp_files, replies, browser,
                       strict_excluded>>

\* a server is constructed: FastMCP(name) has no tool
NewServer ==
    /\ registered' = NoTools
    /\ UNCHANGED <<excluded_commands, allowed_paths, excluded_paths, sessions, pc, call,
                   frame, proc, results, spawns, temp_files, replies, browser,
                   strict_excluded>>

(***************************************************************************)
(* BrowserUseInterface over its MCPServerManager.  One caller awaits each  *)
(* call of the interface before its next one.                              *)
(***************************************************************************)
\* the calls of start_server and of stop_server that are counted
MaxCalls == 3

BrowserFrame ==
    <<excluded_commands, allowed_paths, excluded_paths, sessions, pc, call, frame, proc,
      results, spawns, temp_files, replies, registered, strict_excluded>>

\* is_available: the server name is in manager.servers
IsAvailable(b) == b.available

\* is_running: manager.is_server_running(name)
IsRunning(b) == b.running

\* a slip: start_server is called whether the server runs or not
EnsureRunningAlwaysStarts ==
    /\ browser.pending = "none"
    /\ browser.starts < MaxCalls
    /\ browser' =
          IF ~IsAvailable(browser) THEN [browser EXCEPT !.reply = "not available"]
          ELSE [browser EXCEPT !.starts = @ + 1, !.pending = "start"]
    /\ UNCHANGED BrowserFrame

\* ensure_running, up to its return or to the await of start_server
EnsureRunning ==
    /\ browser.pending = "none"
    /\ browser.starts < MaxCalls
    /\ browser' =
          IF ~IsAvailable(browser) THEN [browser EXCEPT !.reply = "not available"]
          ELSE IF IsRunning(browser) THEN [browser EXCEPT !.reply = "already running"]
          ELSE [browser EXCEPT !.starts = @ + 1, !.pending = "start"]
    /\ UNCHANGED BrowserFrame

\* stop, up to its return or to the await of stop_server
Stop ==
    /\ browser.pending = "none"
    /\ browser.stops < MaxCalls
    /\ browser' =
          IF ~IsAvailable(browser) THEN [browser EXCEPT !.reply = "not available"]
          ELSE IF ~IsRunning(browser) THEN [browser EXCEPT !.reply = "not running"]
          ELSE [browser EXCEPT !.stops = @ + 1, !.pending = "stop"]
    /\ UNCHANGED BrowserFrame

\* restart, up to its return or to its first await
Restart ==
    /\ browser.pending = "none"
    /\ browser.starts < MaxCalls
    /\ browser.stops < MaxCalls
    /\ browser' =
          IF ~IsAvailable(browser) THEN [browser EXCEPT !.reply = "not available"]
          ELSE IF IsRunning(browser)
          THEN [browser EXCEPT !.stops = @ + 1, !.pending = "restart"]
          ELSE [browser EXCEPT !.starts = @ + 1, !.pending = "start"]
    /\ UNCHANGED BrowserFrame

\* the await of stop_server in restart returns: start_server is called
RestartGoesOn(runs) ==
    /\ browser.pending = "restart"
    /\ browser' = [browser EXCEPT !.running = runs, !.starts = @ + 1, !.pending = "start"]
    /\ UNCHANGED BrowserFrame

\* the await of start_server returns its dict, which the interface returns;
\* ok: its "success"; runs: whether the server runs afterwards
StartServerReturns(ok, runs) ==
    /\ browser.pending = "start"
    /\ browser' = [browser EXCEPT !.running = runs, !.pending = "none",
                                  !.reply = IF ok THEN "started" ELSE "start failed"]
    /\ UNCHANGED BrowserFrame

\* the await of stop_server returns its dict, which the interface returns
StopServerReturns(ok, runs) ==
    /\ browser.pending = "stop"
    /\ browser' = [browser EXCEPT !.running = runs, !.pending = "none",
                                  !.reply = IF ok THEN "stopped" ELSE "stop failed"]
    /\ UNCHANGED BrowserFrame

\* manager.servers is given or loses the browser-use server
SetServers(available) ==
    /\ browser.pending = "none"
    /\ browser' = [browser EXCEPT !.available = available]
    /\ UNCHANGED BrowserFrame

\* the server process starts or ends outside the interface
SetRunning(runs) ==
    /\ browser.pending = "none"
    /\ browser' = [browser EXCEPT !.running = runs]
    /\ UNCHANGED BrowserFrame

\* the "success" of the dict the interface returned
Success(reply) == reply \in {"already running", "not running", "started", "stopped"}

(***************************************************************************)
(* Inputs                                                                  *)
(***************************************************************************)
Commands ==
    { <<"r", "m", " ", "x">>,             \* rm x
      <<"l", "s">>,                       \* ls
      <<"l", "s", "|", "w">>,             \* ls|w
      <<"c", "d", " ", "a">>,             \* cd a
      <<"c", "d", " ", ".", ".">>,        \* cd ..
      <<"c", "d", " ", "/", "a", "/", "b">>,  \* cd /a/b
      <<"c", "d", " ", "/", "n">> }       \* cd /n

Cwds ==
    { Nothing, Some(Empty), Some(<<"/", "a">>), Some(<<"/", "x">>), Some(<<"/", "n">>) }

Timeouts == { Nothing, Some("30.0") }

SessionArgs == { Nothing, Some("s1") }

Scripts == { <<"p">>, <<Surrogate>> }

Interpreters == { <<"b", "a", "s", "h">>, <<"F", "i", "s", "h">>, Empty, <<" ">> }

LanguageArgs == { "python", "r", "cobol" }

DenyNames == { <<"r", "m">>, <<"c", "d">> }

\* the tasks that run in Spec: one caller, which awaits each invocation
\* before its next call
SeqTasks == {"t1"}

\* no invocation is in flight
Quiet == \A t \in Tasks : pc[t] = "idle"

Next ==
    \/ \E t \in SeqTasks, command \in Commands, cwd \in Cwds, timeout \in Timeouts,
          login \in BOOLEAN, session \in SessionArgs :
          ExecuteCommand(t, command, cwd, timeout, login, session)
    \/ \E t \in SeqTasks, script \in Scripts, interpreter \in Interpreters, cwd \in Cwds,
          timeout \in Timeouts, login \in BOOLEAN, session \in SessionArgs :
          ExecuteScript(t, script, interpreter, cwd, timeout, login, session)
    \/ \E t \in SeqTasks, script \in Scripts, language \in LanguageArgs, cwd \in Cwds,
          timeout \in Timeouts, login \in BOOLEAN, session \in SessionArgs,
          tmp_ok \in BOOLEAN :
          ExecuteScriptFromFile(t, script, language, cwd, timeout, login, session, tmp_ok)
    \/ \E t \in SeqTasks, feed_raises \in BOOLEAN : SpawnOk(t, feed_raises)
    \/ \E t \in SeqTasks : SpawnFails(t)
    \/ \E t \in SeqTasks, outcome \in ProcOutcomes, removes_file \in BOOLEAN :
          ProcessExits(t, outcome, removes_file)
    \/ \E t \in SeqTasks : Completes(t)
    \/ \E t \in SeqTasks : TimesOut(t)
    \/ \E t \in SeqTasks : CallerResumes(t, "none")
    \/ \E command \in DenyNames : Quiet /\ AllowCommand(command)
    \/ \E command \in DenyNames : Quiet /\ DenyCommand(command)
    \/ \E sid \in SessionIds : Quiet /\ SetWorkingDir(sid, <<"/", "x">>)

Spec == Init /\ [][Next]_vars

(***************************************************************************)
(* Properties                                                              *)
(***************************************************************************)
\* the CommandResult the invocation of task t returned
Res(t) == results[t][1]

\* this step is the call of task t: it runs the method up to its first await
Called(t) == pc[t] = "idle" /\ pc'[t] # "idle"

\* the invocation has returned a failure with return_code 1 and an error
\* message, and has created no subprocess
RejectedNoSpawn(t) ==
    /\ pc[t] = "returned"
    /\ Len(results[t]) = 1
    /\ Res(t).return_code = 1
    /\ Res(t).error_message # Nothing
    /\ spawns[t] = 0
    /\ proc[t].state = "none"

\* the command has a first shell word, and it is in the list
BaseDenied(command, list) ==
    LET r == ShlexSplit(command)
    IN  r.ok /\ r.words # << >> /\ InList(r.words[1], list)

\* C1: a command whose base token is in excluded_commands is answered by the
\* call itself with return_code 1 and an error message, and no subprocess is
\* created, whatever cwd, session_id and use_login_shell are.
C1_DeniedCommandRejected ==
    [][\A t \in Tasks :
          ( /\ Called(t)
            /\ call'[t].op = "execute_command"
            /\ BaseDenied(call'[t].text, excluded_commands) )
          => RejectedNoSpawn(t)']_vars

C1_Witness ==
    \E t \in Tasks :
        /\ call[t].op = "execute_command"
        /\ BaseDenied(call[t].text, excluded_commands)
        /\ call[t].login
        /\ call[t].session # Nothing
        /\ Truthy(call[t].cwd)
        /\ RejectedNoSpawn(t)

\* the path is no existing directory, or is neither an allowed path nor
\* below one
BadCwd(path) ==
    \/ ~IsDir(path)
    \/ ~\E a \in allowed_paths : IsUnder(ResolveComps(path), a)

\* the command is not denied and is no cd
AllowedNonCd(command) ==
    LET r == ShlexSplit(command)
    IN  /\ r.ok
        /\ r.words # << >>
        /\ ~InList(r.words[1], excluded_commands)
        /\ r.words[1] # <<"c", "d">>

\* the invocations C2 is about
CwdChecked(c) ==
    \/ c.op = "execute_command" /\ AllowedNonCd(c.text)
    \/ c.op = "execute_script"

EffCwd(c) ==
    IF Truthy(c.cwd) THEN c.cwd
    ELSE IF c.session # Nothing THEN Some(GetWorkingDir(sessions, c.session[1]))
    ELSE Nothing

\* C3: execute_script_from_file with a working directory (given, or taken from
\* the session) that does not exist or is not under an allowed path creates no
\* subprocess and returns a failed CommandResult.
C3_ScriptFileCwdRejected ==
    \A t \in Tasks :
        ( /\ call[t].op = "execute_script_from_file"
          /\ EffCwd(call[t]) # Nothing
          /\ BadCwd(EffCwd(call[t])[1]) )
        => /\ spawns[t] = 0
           /\ pc[t] = "returned" => Res(t).return_code # 0

\* C4: no invocation of execute_command, execute_script or
\* execute_script_from_file ends with an exception.
C4_NeverRaises == \A t \in Tasks : pc[t] # "raised"

C6_TimeoutLaw ==
    [][\A t \in Tasks :
          (pc[t] = "waiting" /\ pc'[t] # "waiting")
          => /\ pc'[t] = "returned"
             /\ Len(results'[t]) = 1
             /\ proc[t].state = "running" => Res(t)'.return_code = -1
             /\ Res(t)'.return_code = -1 =>
                   /\ call[t].timeout # Nothing
                   /\ Res(t)'.error_message # Nothing
                   /\ Res(t)'.error_message[1].timeout = call[t].timeout
                   /\ proc'[t].state \in {"killed", "exited"}]_vars

C6_Witness ==
    \E t \in Tasks :
        /\ pc[t] = "returned"
        /\ Res(t).return_code = -1
        /\ Res(t).error_message[1].timeout = Some("30.0")
        /\ proc[t].state = "killed"

\* the command is a cd with a target
IsCd(command) ==
    LET r == ShlexSplit(command)
    IN  r.ok /\ Len(r.words) >= 2 /\ r.words[1] = <<"c", "d">>

CdArg(command) == ShlexSplit(command).words[2]

RECURSIVE Descend(_, _)
\* the place reached from the component sequence at along the components:
\* ".." goes one up (the root is its own parent), "." and "" stay
Descend(at, comps) ==
    IF comps = << >> THEN at
    ELSE LET c == Head(comps)
         IN  IF c \in {Empty, <<".">>} THEN Descend(at, Tail(comps))
             ELSE IF c = <<".", ".">>
                  THEN Descend(IF at = << >> THEN at ELSE SubSeq(at, 1, Len(at) - 1),
                               Tail(comps))
             ELSE Descend(Append(at, c), Tail(comps))

\* the components of the normalized absolute form of a cd target, a relative
\* target taken from the directory dir
CdExpected(dir, arg) ==
    Descend(IF IsAbs(arg) THEN << >> ELSE Descend(<< >>, SplitOn(dir, "/", Empty)),
            SplitOn(arg, "/", Empty))

\* the absolute path string of a component sequence
PathOf(comps) == Slash \o JoinWith(comps, Slash)

\* the step is a call of execute_command on a session with a cd command
CdCalled(t) ==
    /\ Called(t)
    /\ call'[t].op = "execute_command"
    /\ call'[t].session # Nothing
    /\ IsCd(call'[t].text)

\* the target of the cd of task t, resolved in the state before the call
CdGoal(t) ==
    CdExpected(GetWorkingDir(sessions, call'[t].session[1]), CdArg(call'[t].text))

\* the cd of task t has returned success without a subprocess and the session
\* is at the target
CdDone(t) ==
    /\ pc'[t] = "returned"
    /\ Len(results'[t]) = 1
    /\ Res(t)'.return_code = 0
    /\ spawns'[t] = 0
    /\ proc'[t].state = "none"
    /\ GetWorkingDir(sessions', call'[t].session[1]) = PathOf(CdGoal(t))

\* C7 as stated: a cd on a session whose resolved target is an existing
\* directory returns success without a subprocess and leaves the session at the
\* normalized absolute target, a relative target being resolved against the
\* directory stored before.
C7_CdMovesSession ==
    [][\A t \in Tasks : (CdCalled(t) /\ CdGoal(t) \in Dirs) => CdDone(t)]_vars

\* C7, amended: the same, provided cd is not in excluded_commands.
C7_AllowedCdMovesSession ==
    [][\A t \in Tasks :
          ( /\ CdCalled(t)
            /\ ~InList(<<"c", "d">>, excluded_commands)
            /\ CdGoal(t) \in Dirs )
          => CdDone(t)]_vars

\* a relative cd .. after an earlier cd /a/b
C7_Witness ==
    \E t \in Tasks :
        /\ pc[t] = "returned"
        /\ call[t].op = "execute_command"
        /\ call[t].text = <<"c", "d", " ", ".", ".">>
        /\ call[t].session = Some("s1")
        /\ Res(t).return_code = 0
        /\ spawns[t] = 0
        /\ "s1" \in DOMAIN sessions
        /\ sessions["s1"] = <<"/", "a">>

\* C8: a cd on a session whose resolved target is no existing directory
\* returns return_code 1 without a subprocess, and the working directory of
\* every session is what it was.
C8_FailedCdKeepsSessions ==
    [][\A t \in Tasks :
          (CdCalled(t) /\ CdGoal(t) \notin Dirs)
          => /\ RejectedNoSpawn(t)'
             /\ \A s \in SessionIds :
                   GetWorkingDir(sessions', s) = GetWorkingDir(sessions, s)]_vars

C8_Witness ==
    \E t \in Tasks :
        /\ call[t].op = "execute_command"
        /\ call[t].text = <<"c", "d", " ", "/", "n">>
        /\ call[t].session = Some("s1")
        /\ ~InList(<<"c", "d">>, excluded_commands)
        /\ RejectedNoSpawn(t)
        /\ "s1" \in DOMAIN sessions
        /\ sessions["s1"] = <<"/", "a">>
        /\ "s2" \in DOMAIN sessions

\* the directory the subprocess of an invocation is to run in: the cwd given,
\* else the directory of the session, else the directory of the server process
ExpectedDir(c) ==
    IF Truthy(c.cwd) THEN c.cwd[1]
    ELSE IF c.session # Nothing THEN GetWorkingDir(sessions, c.session[1])
    ELSE ProcessCwd

\* C9: a subprocess of execute_command or execute_script_from_file runs in the
\* effective working directory, through a shell or not.
C9_RunsInEffectiveCwd ==
    \A t \in Tasks :
        ( /\ call[t].op \in {"execute_command", "execute_script_from_file"}
          /\ proc[t].state # "none" )
        => Lookup(ProcDir(proc[t])) = Lookup(ExpectedDir(call[t]))

\* C10: an invocation that has ended has returned exactly one CommandResult
\* and has created at most one subprocess.
C10_OneResultOneSpawn ==
    \A t \in Tasks :
        pc[t] \in {"returned", "raised"} => (Len(results[t]) = 1 /\ spawns[t] <= 1)

\* the result is a failure of the given return code with a message that is
\* not the empty string
FailedWith(r, rc) ==
    /\ r.return_code = rc
    /\ r.error_message # Nothing
    /\ r.error_message[1].fmt # ""
    /\ ~IsSuccess(r)

\* the step returns the result of task t
Returns(t) == pc[t] # "returned" /\ pc'[t] = "returned"

\* C11: a result returned for a rejection (denied command, bad working
\* directory, failed cd, unsupported language) or a spawn failure has
\* return_code 1 and a non-empty error message, a result returned for a timeout
\* has return_code -1 and a non-empty error message, is_success is false for
\* all of them and holds iff return_code = 0, and the result of a completed
\* process (or of a successful cd) carries no error message.
C11_FailuresCarryMessage ==
    [][\A t \in Tasks :
          Returns(t) =>
             LET r == Res(t)'
             IN  /\ Len(results'[t]) = 1
                 /\ IsSuccess(r) <=> r.return_code = 0
                 /\ pc[t] = "idle" =>
                       \/ FailedWith(r, 1)
                       \/ /\ IsCd(call'[t].text)
                          /\ r.return_code = 0
                          /\ r.error_message = Nothing
                 /\ pc[t] = "spawning" => FailedWith(r, 1)
                 /\ pc[t] = "waiting" =>
                       \/ FailedWith(r, -1) /\ r.error_message[1].timeout = call[t].timeout
                       \/ /\ proc[t].state = "exited"
                          /\ r.return_code = proc[t].rc
                          /\ r.error_message = Nothing]_vars

\* a spawn failure and an unsupported language have been reported
C11_Witness ==
    \E t \in Tasks :
        /\ pc[t] = "returned"
        /\ call[t].op = "execute_script_from_file"
        /\ FailedWith(Res(t), 1)
        /\ Res(t).error_message[1].exc = "OSError"

\* the set of names the claim gives as supported
ClaimedLanguages ==
    { "python", "javascript", "typescript", "bash", "fish", "ruby", "php", "perl", "r" }

\* the elements of a list
Range(list) == { list[i] : i \in DOMAIN list }

\* the result is the rejection of the language
Unsupported(t) ==
    /\ pc[t] = "returned"
    /\ Len(results[t]) = 1
    /\ Res(t).error_message # Nothing
    /\ Res(t).error_message[1].fmt =
          "Unsupported language: {language}. Supported languages: {languages}"

\* C12: execute_script_from_file with a language outside the supported set
\* returns return_code 1 with a message that enumerates the supported names,
\* without a temporary file and without a subprocess; a language is accepted
\* iff get_available_languages lists it, and that list holds exactly the
\* supported names.
C12_UnsupportedLanguageRejected ==
    [][\A t \in Tasks :
          (Called(t) /\ call'[t].op = "execute_script_from_file") =>
             /\ call'[t].language \notin ClaimedLanguages =>
                   /\ RejectedNoSpawn(t)'
                   /\ Unsupported(t)'
                   /\ Range(Res(t)'.error_message[1].arg) = ClaimedLanguages
                   /\ temp_files' = temp_files
             /\ call'[t].language \in Range(GetAvailableLanguages) <=> ~Unsupported(t)'
             /\ Range(GetAvailableLanguages) = ClaimedLanguages]_vars

\* an unsupported language has been rejected
C12_Witness ==
    \E t \in Tasks :
        /\ call[t].op = "execute_script_from_file"
        /\ call[t].language = "cobol"
        /\ Unsupported(t)
        /\ Res(t).return_code = 1
        /\ temp_files = { }
        /\ spawns[t] = 0

(***************************************************************************)
(* The execution mode of execute_command                                   *)
(***************************************************************************)
\* command lines with each shell operator, with a quoted operator, and
\* without any
ModeCommands ==
    { <<"l", "s">>,
      <<"l", "s", " ", "-", "l">>,
      <<"a", "&", "&", "b">>,
      <<"a", "|", "|", "b">>,
      <<"a", "|", "b">>,
      <<"a", ";", "b">>,
      <<"a", ">", "f">>,
      <<"a", "<", "f">>,
      <<"e", " ", "$", "(", "a", ")">>,
      <<"e", " ", Backquote, "a", Backquote>>,
      <<"e", " ", "$", "H">>,
      <<"e", " ", "'", "|", "'">>,
      <<"a", "&", "b">> }

\* calls of execute_command without cwd and session, each run to its end
NextModes ==
    \/ \E t \in SeqTasks, command \in ModeCommands, timeout \in Timeouts,
          login \in BOOLEAN :
          ExecuteCommand(t, command, Nothing, timeout, login, Nothing)
    \/ \E t \in SeqTasks : SpawnOk(t, FALSE)
    \/ \E t \in SeqTasks : SpawnFails(t)
    \/ \E t \in SeqTasks, outcome \in ProcOutcomes : ProcessExits(t, outcome, FALSE)
    \/ \E t \in SeqTasks : Completes(t)
    \/ \E t \in SeqTasks : TimesOut(t)
    \/ \E t \in SeqTasks : CallerResumes(t, "none")

SpecModes == Init /\ [][NextModes]_vars

\* the operators the claim lists
ClaimedOperators ==
    { <<"&", "&">>, <<"|", "|">>, <<"|">>, <<";">>, <<">">>, <<"<">>,
      <<Backquote>>, <<"$">> }

\* the command line holds one of them, as a substring
HasClaimedOperator(command) ==
    \E op \in ClaimedOperators :
        \E i \in 1..Len(command) :
            i + Len(op) - 1 <= Len(command) /\ SubSeq(command, i, i + Len(op) - 1) = op

\* C13: execute_command hands the command to a shell iff the command holds a
\* shell operator or use_login_shell is true; otherwise the process is created
\* from the shell-split argument vector, without a shell.
C13_ShellIffOperatorOrLogin ==
    \A t \in Tasks :
        frame[t].via = "command" =>
           LET through_shell == HasClaimedOperator(call[t].text) \/ call[t].login
           IN  /\ frame[t].shell <=> through_shell
               /\ proc[t].state # "none" => (proc[t].shell <=> through_shell)
               /\ ~through_shell =>
                     /\ frame[t].argv # << >>
                     /\ frame[t].argv = ShlexSplit(call[t].text).words
                     /\ proc[t].state # "none" => proc[t].argv = frame[t].argv
               /\ through_shell => frame[t].argv = << >>

\* a command with arguments and no operator runs without a shell, from its
\* two words
C13_Witness ==
    \E t \in Tasks :
        /\ call[t].op = "execute_command"
        /\ ~call[t].login
        /\ proc[t].state = "running"
        /\ ~proc[t].shell
        /\ proc[t].argv = << <<"l", "s">>, <<"-", "l">> >>

\* C14: the process of an execute_script call with an interpreter that has no
\* special handler reads the script on its standard input, with
\* use_login_shell true and false (for every script UTF-8 can encode).
C14_ScriptReachesStdin ==
    \A t \in Tasks :
        ( /\ call[t].op = "execute_script"
          /\ frame[t].via = "stdin"
          /\ ~WriteFails(call[t].text)
          /\ proc[t].state # "none" )
        => proc[t].input = Some(call[t].text)

(***************************************************************************)
(* The fish handler                                                        *)
(***************************************************************************)
\* the characters of the scripts: a letter, the quotes, $, the backquote and
\* a character of two bytes
FishChars == { "a", "'", "\"", "$", Backquote, EAcute }

MaxScriptLen == 3

\* every script of at most MaxScriptLen characters
FishScripts == UNION { [1..n -> FishChars] : n \in 0..MaxScriptLen }

\* calls of execute_script with the fish interpreter, each run to its end
NextFish ==
    \/ \E t \in SeqTasks, script \in FishScripts, timeout \in Timeouts :
          ExecuteScript(t, script, <<"f", "i", "s", "h">>, Nothing, timeout, TRUE, Nothing)
    \/ \E t \in SeqTasks : SpawnOk(t, FALSE)
    \/ \E t \in SeqTasks : SpawnFails(t)
    \/ \E t \in SeqTasks, outcome \in ProcOutcomes : ProcessExits(t, outcome, FALSE)
    \/ \E t \in SeqTasks : Completes(t)
    \/ \E t \in SeqTasks : TimesOut(t)
    \/ \E t \in SeqTasks : CallerResumes(t, "none")

SpecFish == Init /\ [][NextFish]_vars

\* characters that quote, expand, separate or end something in a command
\* line, inside double quotes or outside
ShellSpecial ==
    { "'", "\"", "$", Backquote, "\\", "|", "&", ";", "<", ">", "(", ")", " ", "\t",
      "\n", "*", "?", "[", "]", "{", "}", "~", "#", "!", "%" }

\* the payload of a fish command line: what stands between the text before
\* it and the text after it
PayloadOf(line, interpreter) == SubSeq(line, Len(interpreter) + 2, Len(line) - 1)

\* C15: the command line of the fish handler is the interpreter, the fixed
\* text and a payload; the base64 decoding of the payload is the UTF-8
\* encoding of the script, its text is the script, and no character of the
\* payload is special to a shell.
C15_FishRoundTrip ==
    \A t \in Tasks :
        frame[t].via = "fish" =>
           LET payload == PayloadOf(frame[t].line, call[t].interp)
           IN  /\ frame[t].line = call[t].interp \o FishHead \o payload \o FishTail
               /\ Utf8Decode(B64Decode(payload)) = call[t].text
               /\ \A i \in 1..Len(payload) :
                     /\ payload[i] \notin ShellSpecial
                     /\ payload[i] = "=" \/ \E j \in DOMAIN B64Alphabet : B64Alphabet[j] = payload[i]

\* a script of both quotes and a $ runs through the handler
C15_Witness ==
    \E t \in Tasks :
        /\ frame[t].via = "fish"
        /\ call[t].text = <<"'", "\"", "$">>
        /\ proc[t].state = "running"
        /\ PayloadOf(frame[t].line, call[t].interp) = <<"J", "y", "I", "k">>

(***************************************************************************)
(* The shell tools                                                         *)
(***************************************************************************)
\* what a subprocess of a tool call can end with; a success may have written
\* to stderr
ToolOutcomes ==
    ProcOutcomes \cup { [rc |-> 0, stdout |-> <<"o">>, stderr |-> <<"w">>],
                        [rc |-> 0, stdout |-> Empty, stderr |-> Empty] }

ToolCwds == { Some(<<"/", "a">>), Some(<<"/", "x">>) }

\* calls of the executor as the tools make them (timeout=30.0, a cwd), each
\* followed by the tool's return
NextTools ==
    \/ \E t \in SeqTasks, command \in { <<"l", "s">>, <<"r", "m", " ", "x">> },
          cwd \in ToolCwds, login \in BOOLEAN :
          ExecuteCommand(t, command, cwd, Some("30.0"), login, Some("s1"))
    \/ \E t \in SeqTasks, cwd \in ToolCwds, login \in BOOLEAN, session \in SessionArgs :
          ExecuteScript(t, <<"p">>, <<"b", "a", "s", "h">>, cwd, Some("30.0"), login, session)
    \/ \E t \in SeqTasks, language \in LanguageArgs, cwd \in ToolCwds, login \in BOOLEAN :
          ExecuteScriptFromFile(t, <<"p">>, language, cwd, Some("30.0"), login,
                                Some("s1"), TRUE)
    \/ \E t \in SeqTasks, feed_raises \in BOOLEAN : SpawnOk(t, feed_raises)
    \/ \E t \in SeqTasks : SpawnFails(t)
    \/ \E t \in SeqTasks, outcome \in ToolOutcomes : ProcessExits(t, outcome, FALSE)
    \/ \E t \in SeqTasks : Completes(t)
    \/ \E t \in SeqTasks : TimesOut(t)
    \/ \E t \in SeqTasks, tool \in ToolNames : CallerResumes(t, tool)

SpecTools == Init /\ [][NextTools]_vars

\* the sections of the text for a failure: the error message if there is
\* one, the exit code, STDOUT and STDERR if they are not empty, with an empty
\* line between two sections
FailureText(r) ==
    LET error == IF r.error_message # Nothing
                 THEN << <<"Error: ">> \o RenderMsg(r.error_message[1]) >> ELSE << >>
        code == << <<"Exit code: ", IntStr(r.return_code)>> >>
        out == IF r.stdout # Empty THEN << <<"STDOUT:\n">> \o r.stdout >> ELSE << >>
        err == IF r.stderr # Empty THEN << <<"STDERR:\n">> \o r.stderr >> ELSE << >>
    IN  JoinWith(error \o code \o out \o err, <<"\n\n">>)

\* C16: the string a shell tool returns is the stdout of the CommandResult
\* when that is a success, and the formatted text of the sections when it is
\* a failure.
C16_ToolOutputContract ==
    [][\A t \in Tasks :
          (pc[t] = "returned" /\ pc'[t] = "idle" /\ replies'[t] # Nothing) =>
             replies'[t][1] = IF IsSuccess(Res(t)) THEN Res(t).stdout
                              ELSE FailureText(Res(t))]_vars

(***************************************************************************)
(* The allowed and the excluded paths                                      *)
(***************************************************************************)
\* the paths that are allowed and excluded
AllowArgs == { <<"/", "a">>, <<"/", "a", "/", "b", "/", "c">>, <<"/", "x">> }

ExcludeArgs == { <<"/", "a", "/", "b">>, <<"/", "x", "/", ".", ".", "/", "a">>, <<"x">> }

\* the paths that are asked for: an allowed path, one that only starts with
\* the characters of an allowed path, paths below, relative and unnormalized
\* paths, the root, no path and blank paths
PathArgs ==
    { <<"/", "a">>, <<"/", "a", "b">>, <<"/", "a", "/", "b">>,
      <<"/", "a", "/", "b", "/", "c">>, <<"/", "a", "/", "c">>, <<"/", "x">>,
      <<"/", "x", "y">>, <<"/", "a", "/", ".", ".", "/", "x">>, <<"a">>, <<"/">> }

\* changes of the path sets, and calls of RunScriptTool with any cwd
NextPaths ==
    \/ \E path \in AllowArgs : Quiet /\ AddAllowedPath(path)
    \/ \E path \in ExcludeArgs : Quiet /\ ExcludePath(path)
    \/ \E t \in SeqTasks, path \in PathArgs \cup {Empty, <<" ">>}, login \in BOOLEAN :
          RunScriptToolCall(t, <<"p">>, <<"b", "a", "s", "h">>, Some(path), login)
    \/ \E t \in SeqTasks, login \in BOOLEAN :
          RunScriptToolCall(t, <<"p">>, <<"b", "a", "s", "h">>, Nothing, login)
    \/ \E t \in SeqTasks, feed_raises \in BOOLEAN : SpawnOk(t, feed_raises)
    \/ \E t \in SeqTasks : SpawnFails(t)
    \/ \E t \in SeqTasks, outcome \in ProcOutcomes : ProcessExits(t, outcome, FALSE)
    \/ \E t \in SeqTasks : Completes(t)
    \/ \E t \in SeqTasks : TimesOut(t)
    \/ \E t \in SeqTasks : CallerResumes(t, "RunScriptTool")

SpecPaths == Init /\ [][NextPaths]_vars

\* the components of the resolved form of a path
Resolved(path) == CdExpected(ProcessCwd, path)

\* the resolved path is base or a descendant of base, component by component
Below(path, base) ==
    LET c == Resolved(path)
    IN  Len(base) <= Len(c) /\ \A i \in 1..Len(base) : c[i] = base[i]

\* what the claim says is_path_allowed answers
ClaimedAllowed(path) ==
    /\ \E a \in allowed_paths : Below(path, a)
    /\ ~\E e \in excluded_paths : Below(path, e)

\* the answers of is_path_allowed in this state are the claimed ones
PathAnswers ==
    \A path \in PathArgs :
        /\ IsPathAllowed(path, allowed_paths, excluded_paths) <=> ClaimedAllowed(path)
        /\ DocIsPathAllowed(path, allowed_paths) <=> \E a \in allowed_paths : Below(path, a)

\* this step is a call of RunScriptTool with the cwd path that got past the
\* permission check
ToolPassed(t, path) ==
    \/ replies'[t] = Some(<<"Error: Working directory does not exist: ">> \o path)
    \/ pc'[t] # "idle" /\ call'[t].cwd = Some(path)

\* C17: after any sequence of add_allowed_path and exclude_path calls,
\* is_path_allowed(p) holds iff the resolved p is an allowed path or a
\* descendant of one, by path components, and is not under an excluded path;
\* RunScriptTool turns away exactly the working directories it denies.
C17_PathAllowedIff ==
    [][/\ PathAnswers
       /\ PathAnswers'
       /\ \A t \in Tasks, path \in PathArgs :
             (pc[t] = "idle" /\ replies'[t] # replies[t]) =>
                /\ replies'[t] = Some(<<"Error: Working directory not allowed: ">> \o path)
                      => ~ClaimedAllowed(path)
                /\ ToolPassed(t, path) => ClaimedAllowed(path)]_vars

\* a path under an allowed and an excluded path has been turned away, with a
\* further allowed path and a further excluded path in place
C17_Witness ==
    /\ Cardinality(allowed_paths) >= 2
    /\ Cardinality(excluded_paths) >= 2
    /\ \E t \in Tasks :
          replies[t] = Some(<<"Error: Working directory not allowed: ">>
                            \o <<"/", "a", "/", "b", "/", "c">>)
    /\ DocIsPathAllowed(<<"/", "a", "/", "b", "/", "c">>, allowed_paths)
    /\ ~DocIsPathAllowed(<<"/", "a", "b">>, allowed_paths)

(***************************************************************************)
(* The session registry                                                    *)
(***************************************************************************)
\* the directories given to set_working_dir
SetDirs == { <<"/", "a", "/", "b">>, <<"~">>, <<"/", "a", "/", "b", "/", ".", ".">> }

\* cd commands with absolute and relative targets, a target that is no
\* directory, and a command that is no cd
SessionCommands ==
    { <<"c", "d", " ", "a">>, <<"c", "d", " ", ".", ".">>,
      <<"c", "d", " ", "/", "a", "/", "b">>, <<"c", "d", " ", "/", "n">>, <<"l", "s">> }

\* set_working_dir, get_working_dir and commands on two session ids
NextSessions ==
    \/ \E sid \in SessionIds, path \in SetDirs : Quiet /\ SetWorkingDir(sid, path)
    \/ \E sid \in SessionIds : Quiet /\ GetWorkingDirCall(sid)
    \/ \E t \in SeqTasks, command \in SessionCommands, sid \in SessionIds :
          ExecuteCommand(t, command, Nothing, Some("30.0"), FALSE, Some(sid))
    \/ \E command \in { <<"c", "d">> } : Quiet /\ DenyCommand(command)
    \/ \E command \in { <<"c", "d">> } : Quiet /\ AllowCommand(command)
    \/ \E t \in SeqTasks, feed_raises \in BOOLEAN : SpawnOk(t, feed_raises)
    \/ \E t \in SeqTasks : SpawnFails(t)
    \/ \E t \in SeqTasks, outcome \in ProcOutcomes : ProcessExits(t, outcome, FALSE)
    \/ \E t \in SeqTasks : Completes(t)
    \/ \E t \in SeqTasks : TimesOut(t)
    \/ \E t \in SeqTasks : CallerResumes(t, "none")

SpecSessions == Init /\ [][NextSessions]_vars

\* the directory a set_working_dir of the path stores: ~ is the home
\* directory, and the path is made absolute and normal
StoredForm(path) == PathOf(Resolved(IF path = <<"~">> THEN Home ELSE path))

\* the step leaves the working directory of every session but sid as it was
OthersKeep(sid) ==
    \A s \in SessionIds \ {sid} : GetWorkingDir(sessions', s) = GetWorkingDir(sessions, s)

\* the step is a set_working_dir
IsSetStep == \E sid \in SessionIds, path \in SetDirs : SetWorkingDir(sid, path)

\* the step is a cd on a session that returns success
IsCdStore == \E t \in Tasks : CdCalled(t) /\ Res(t)'.return_code = 0

NextPar ==
    \/ \E t \in Tasks, command \in { <<"l", "s">>, <<"r", "m", " ", "x">> },
          timeout \in Timeouts, login \in BOOLEAN, session \in SessionArgs :
          ExecuteCommand(t, command, Nothing, timeout, login, session)
    \/ \E t \in Tasks, interpreter \in { <<"b", "a", "s", "h">>, <<"F", "i", "s", "h">> } :
          ExecuteScript(t, <<"p">>, interpreter, Some(<<"/", "a">>), Some("30.0"), FALSE,
                        Nothing)
    \/ \E t \in Tasks, tmp_ok \in BOOLEAN :
          ExecuteScriptFromFile(t, <<"p">>, "python", Nothing, Some("30.0"), FALSE, Nothing,
                                tmp_ok)
    \/ \E t \in Tasks, feed_raises \in BOOLEAN : SpawnOk(t, feed_raises)
    \/ \E t \in Tasks : SpawnFails(t)
    \/ \E t \in Tasks, outcome \in ProcOutcomes, removes_file \in BOOLEAN :
          ProcessExits(t, outcome, removes_file)
    \/ \E t \in Tasks : Completes(t)
    \/ \E t \in Tasks : TimesOut(t)
    \/ \E t \in Tasks : CallerResumes(t, "none")

SpecPar == Init /\ [][NextPar]_vars

\* task t can take the next step of its invocation: the call, the return of
\* the spawn, the return of the wait, its timeout, the return to the caller
CanGoOn(t) ==
    /\ pc[t] = "idle" =>
          /\ ENABLED ExecuteCommand(t, <<"l", "s">>, Nothing, Some("30.0"), FALSE, Nothing)
          /\ ENABLED ExecuteScript(t, <<"p">>, <<"b", "a", "s", "h">>, Some(<<"/", "a">>),
                                   Some("30.0"), FALSE, Nothing)
          /\ ENABLED ExecuteScriptFromFile(t, <<"p">>, "python", Nothing, Some("30.0"),
                                           FALSE, Nothing, TRUE)
    /\ (pc[t] = "spawning" /\ CanRunIn(frame[t].cwd)) => ENABLED SpawnOk(t, FALSE)
    /\ pc[t] = "spawning" => ENABLED SpawnFails(t)
    /\ (pc[t] = "waiting" /\ proc[t].state = "exited") => ENABLED Completes(t)
    /\ (pc[t] = "waiting" /\ call[t].timeout # Nothing) => ENABLED TimesOut(t)
    /\ pc[t] \in {"returned", "raised"} => ENABLED CallerResumes(t, "none")

\* C19: there is no execution lock: whatever the other invocations are doing,
\* one of them waiting for its subprocess included, an invocation can be
\* called, get its subprocess, take the result of its wait or its timeout and
\* return.
C19_NoExecutionLock ==
    \A t \in Tasks :
        (\E u \in Tasks \ {t} : pc[u] # "idle") => CanGoOn(t)

\* t1 is waiting for its running subprocess, with no timeout, and t2 has
\* returned the output of a subprocess of its own
C19_Witness ==
    /\ pc["t1"] = "waiting"
    /\ proc["t1"].state = "running"
    /\ call["t1"].timeout = Nothing
    /\ pc["t2"] = "returned"
    /\ spawns["t2"] = 1
    /\ proc["t2"].state = "exited"
    /\ Res("t2").return_code = 0
    /\ Res("t2").stdout = <<"o">>

(***************************************************************************)
(* Changes of the denylist                                                 *)
(***************************************************************************)
\* the names given to allow_command and deny_command
DenyArgs == { <<"r", "m">>, <<"l", "s">>, <<"c", "d">> }

\* commands with these names as base token, bare, quoted and with a pipe, a
\* command whose base token only starts with one of them, and no command
ProbeCommands ==
    { <<"r", "m", " ", "x">>, <<"'", "r", "m", "'", " ", "x">>, <<"r", "m", "x">>,
      <<"l", "s">>, <<"l", "s", "|", "w">>, <<"c", "d", " ", "a">>, Empty }

NextDeny ==
    \/ \E command \in DenyArgs : Quiet /\ AllowCommand(command)
    \/ \E command \in DenyArgs : Quiet /\ DenyCommand(command)
    \/ \E t \in SeqTasks, command \in ProbeCommands, login \in BOOLEAN :
          ExecuteCommand(t, command, Nothing, Some("30.0"), login, Nothing)
    \/ \E t \in SeqTasks, feed_raises \in BOOLEAN : SpawnOk(t, feed_raises)
    \/ \E t \in SeqTasks : SpawnFails(t)
    \/ \E t \in SeqTasks, outcome \in ProcOutcomes : ProcessExits(t, outcome, FALSE)
    \/ \E t \in SeqTasks : Completes(t)
    \/ \E t \in SeqTasks : TimesOut(t)
    \/ \E t \in SeqTasks : CallerResumes(t, "none")

SpecDeny == Init /\ [][NextDeny]_vars

\* the base token of the command is c
BaseIs(command, c) ==
    LET r == ShlexSplit(command)
    IN  r.ok /\ r.words # << >> /\ r.words[1] = c

\* no entry is in the list twice
NoDuplicates(list) ==
    \A i, j \in 1..Len(list) : list[i] = list[j] => i = j

\* the command holds none of the excluded patterns
PatternFree(command) ==
    \A i \in 1..Len(ExcludedPatterns) : ~Contains(command, ExcludedPatterns[i])

\* C20: after deny_command(c) is_command_allowed rejects every command whose
\* base token is c, after allow_command(c) it rejects none on account of c,
\* a deny_command of a denied name and an allow_command of a name not denied
\* change nothing, and excluded_commands never holds an entry twice.
C20_DenylistMutation ==
    [][/\ \A c \in DenyArgs :
             /\ DenyCommand(c) =>
                   /\ InList(c, excluded_commands')
                   /\ InList(c, excluded_commands) => excluded_commands' = excluded_commands
                   /\ \A command \in ProbeCommands :
                         BaseIs(command, c) =>
                            /\ ~IsCommandAllowed(command, excluded_commands')
                            /\ ~EnhancedIsCommandAllowed(command, excluded_commands',
                                                         ExcludedPatterns)
             /\ AllowCommand(c) =>
                   /\ ~InList(c, excluded_commands')
                   /\ ~InList(c, excluded_commands) => excluded_commands' = excluded_commands
                   /\ \A command \in ProbeCommands :
                         BaseIs(command, c) =>
                            /\ IsCommandAllowed(command, excluded_commands')
                            /\ EnhancedIsCommandAllowed(command, excluded_commands',
                                                        ExcludedPatterns)
                                  <=> PatternFree(command)
       /\ NoDuplicates(excluded_commands)
       /\ NoDuplicates(excluded_commands')]_vars

\* rm was allowed, cd denied and rm denied again: the quoted rm is turned
\* away, and the list holds each name once
C20_Witness ==
    /\ excluded_commands = << <<"c", "d">>, <<"r", "m">> >>
    /\ \E t \in Tasks :
          /\ call[t].text = <<"'", "r", "m", "'", " ", "x">>
          /\ RejectedNoSpawn(t)

(***************************************************************************)
(* The filesystem tools that are registered                                *)
(***************************************************************************)
\* the enabled_tools arguments: none, an empty dict, and dicts that enable
\* and disable tools, one with a name that is no tool
EnabledArgs ==
    { Nothing, Some(<< >>),
      Some(<< <<"write", TRUE>>, <<"read", FALSE>> >>),
      Some(<< <<"grep", TRUE>>, <<"bogus", TRUE>> >>),
      Some(<< <<"unified_search", TRUE>>, <<"watch", TRUE>>, <<"edit", FALSE>> >>),
      Some(<< <<"diff", TRUE>>, <<"find_files", TRUE>>, <<"batch_search", TRUE>> >>),
      Some(<< <<"read", FALSE>> >>) }

NextRegister ==
    \/ \E disable_write_tools \in BOOLEAN, disable_search_tools \in BOOLEAN,
          enabled_tools \in EnabledArgs, project_manager \in BOOLEAN :
          RegisterFilesystemTools(disable_write_tools, disable_search_tools, enabled_tools,
                                  project_manager)
    \/ NewServer

SpecRegister == Init /\ [][NextRegister]_vars

\* the tools that change files
WriteTools == { "write", "edit", "multi_edit", "content_replace" }

\* the tools that are in the list the last call returned
Returned == { registered.returned[i] : i \in DOMAIN registered.returned }

\* the call registered the read, directory-tree and search tools and no tool
\* that changes files
ReadOnlyRegistered ==
    /\ {"read", "directory_tree", "grep"} \subseteq Returned'
    /\ Returned' \cap WriteTools = { }
    /\ registered'.server = registered.server \cup Returned'

\* C21 as stated: with no per-tool configuration, register_filesystem_tools
\* with disable_write_tools=True registers the read, directory-tree and search
\* tools and no write, edit, multi-edit or content-replace tool.
C21_WriteDisabledReadOnly ==
    [][\A disable_search_tools \in BOOLEAN, enabled_tools \in {Nothing, Some(<< >>)},
         project_manager \in BOOLEAN :
          RegisterFilesystemTools(TRUE, disable_search_tools, enabled_tools, project_manager)
          => ReadOnlyRegistered]_vars

\* C21 amended: with no per-tool configuration and disable_write_tools=True,
\* no write, edit, multi-edit or content-replace tool is registered; the
\* read and directory-tree tools are, and the search tools are when
\* disable_search_tools is false; with disable_search_tools=True the read and
\* directory-tree tools alone are registered.
C21_WriteDisabledNoWriteTool ==
    [][\A disable_search_tools \in BOOLEAN, enabled_tools \in {Nothing, Some(<< >>)},
         project_manager \in BOOLEAN :
          RegisterFilesystemTools(TRUE, disable_search_tools, enabled_tools, project_manager)
          => /\ Returned' \cap WriteTools = { }
             /\ registered'.server = registered.server \cup Returned'
             /\ IF disable_search_tools
                THEN Returned' = {"read", "directory_tree"}
                ELSE ReadOnlyRegistered]_vars

\* a server that had the write tools got the read-only tools of a call with
\* disable_write_tools=True and a project manager
C21_Witness ==
    /\ WriteTools \subseteq registered.server
    /\ registered.returned = GetReadOnlyFilesystemTools(TRUE)

(***************************************************************************)
(* The lifecycle of the browser-use server                                 *)
(***************************************************************************)
NextBrowser ==
    \/ EnsureRunning
    \/ Stop
    \/ Restart
    \/ \E runs \in BOOLEAN : RestartGoesOn(runs)
    \/ \E ok \in BOOLEAN, runs \in BOOLEAN : StartServerReturns(ok, runs)
    \/ \E ok \in BOOLEAN, runs \in BOOLEAN : StopServerReturns(ok, runs)
    \/ \E available \in BOOLEAN : SetServers(available)
    \/ \E runs \in BOOLEAN : SetRunning(runs)

SpecBrowser == Init /\ [][NextBrowser]_vars

\* the step calls start_server, stop_server
StartCalled == browser'.starts = browser.starts + 1

StopCalled == browser'.stops = browser.stops + 1

\* the step makes no call of the manager and returns the reply
Answers(reply) ==
    /\ browser'.starts = browser.starts
    /\ browser'.stops = browser.stops
    /\ browser'.pending = "none"
    /\ browser'.reply = reply

\* C22: ensure_running calls start_server only when the server is available
\* and not running, and returns success without a start when it runs; stop
\* calls stop_server only when the server is available and running, and
\* returns success without a stop when it does not run; with the server not
\* available both return success=False and call neither.
C22_LifecycleGuards ==
    [][/\ EnsureRunning =>
             /\ ~StopCalled
             /\ StartCalled <=> (browser.available /\ ~browser.running)
             /\ (browser.available /\ browser.running) =>
                   (Answers("already running") /\ Success(browser'.reply))
             /\ ~browser.available => (Answers("not available") /\ ~Success(browser'.reply))
       /\ Stop =>
             /\ ~StartCalled
             /\ StopCalled <=> (browser.available /\ browser.running)
             /\ (browser.available /\ ~browser.running) =>
                   (Answers("not running") /\ Success(browser'.reply))
             /\ ~browser.available => (Answers("not available") /\ ~Success(browser'.reply))]_vars

\* the server was started once and stopped once, and with the server taken
\* out of the configuration the interface answered that it is not available
C22_Witness ==
    /\ browser.starts = 1
    /\ browser.stops = 1
    /\ ~browser.available
    /\ browser.reply = "not available"
    /\ browser.pending = "none"

(***************************************************************************)
(* The cd special case                                                     *)
(***************************************************************************)
\* cd commands: a bare one, ones that go on after the target, and ones with
\* a target in the home directory; and a command that is no cd
CdCommands ==
    { <<"c", "d", " ", "a">>,
      <<"c", "d", " ", "a", " ", "&", "&", " ", "l", "s">>,    \* cd a && ls
      <<"c", "d", " ", "a", " ", ";", " ", "l", "s">>,         \* cd a ; ls
      <<"c", "d", " ", "~">>,
      <<"c", "d", " ", "~", "/", ".">>,                        \* cd ~/.
      <<"l", "s">> }

NextCd ==
    \/ \E t \in SeqTasks, command \in CdCommands, sid \in SessionIds, login \in BOOLEAN :
          ExecuteCommand(t, command, Nothing, Some("30.0"), login, Some(sid))
    \/ \E sid \in SessionIds : Quiet /\ SetWorkingDir(sid, <<"/", "a">>)
    \/ \E t \in SeqTasks, feed_raises \in BOOLEAN : SpawnOk(t, feed_raises)
    \/ \E t \in SeqTasks : SpawnFails(t)
    \/ \E t \in SeqTasks, outcome \in ProcOutcomes : ProcessExits(t, outcome, FALSE)
    \/ \E t \in SeqTasks : Completes(t)
    \/ \E t \in SeqTasks : TimesOut(t)
    \/ \E t \in SeqTasks : CallerResumes(t, "none")

SpecCd == Init /\ [][NextCd]_vars

\* the command is cd, one target and nothing else
BareCd(command) ==
    LET r == ShlexSplit(command)
    IN  r.ok /\ Len(r.words) = 2 /\ r.words[1] = <<"c", "d">>

\* the invocation was answered by the cd special case: success without a
\* subprocess, or its "Directory does not exist"
ShortCircuited(t) ==
    /\ pc[t] = "returned"
    /\ spawns[t] = 0
    /\ \/ Res(t).return_code = 0
       \/ /\ Res(t).error_message # Nothing
          /\ Res(t).error_message[1].fmt = "Directory does not exist: {target_dir}"

\* C23: a command on a session that starts with "cd " and goes on after the
\* target is not answered by the cd special case, and moves no session.
C23_OnlyBareCdShortCircuits ==
    [][\A t \in Tasks :
          ( /\ Called(t)
            /\ call'[t].op = "execute_command"
            /\ call'[t].session # Nothing
            /\ StartsWith(Strip(call'[t].text), <<"c", "d", " ">>)
            /\ ~BareCd(call'[t].text) )
          => /\ ~ShortCircuited(t)'
             /\ \A s \in SessionIds :
                   GetWorkingDir(sessions', s) = GetWorkingDir(sessions, s)]_vars

\* the directory a target that starts with ~ names: the home directory in the
\* place of ~
HomeBased(arg) == CdExpected(ProcessCwd, Home \o Tail(arg))

\* C24: a cd on a session whose target starts with ~ and names an existing
\* directory under the home directory returns success and leaves the session
\* at that directory, whatever directory the session was at.
C24_CdTildeGoesHome ==
    [][\A t \in Tasks :
          ( /\ CdCalled(t)
            /\ BareCd(call'[t].text)
            /\ Head(CdArg(call'[t].text)) = "~"
            /\ ~InList(<<"c", "d">>, excluded_commands)
            /\ HomeBased(CdArg(call'[t].text)) \in Dirs )
          => /\ Res(t)'.return_code = 0
             /\ GetWorkingDir(sessions', call'[t].session[1])
                   = PathOf(HomeBased(CdArg(call'[t].text)))]_vars

(***************************************************************************)
(* Commands that cannot be split, and empty commands                       *)
(***************************************************************************)
\* commands with a quote left open, blank commands, and commands whose
\* quotes are closed
QuoteCommands ==
    { <<"'", "l", "s">>,                          \* 'ls
      <<"l", "s", " ", "\"", "a">>,               \* ls "a
      <<"l", "s", " ", "\"", "a", "'", "\"", " ", "'">>,   \* ls "a'" '
      <<"r", "m", " ", "'", "x">>,                \* rm 'x
      Empty, <<" ">>, <<" ", "\t">>,
      <<"'", "l", "s", "'">>,                     \* 'ls'
      <<"l", "s", " ", "\"", "a", "'", "\"">>,    \* ls "a'"
      <<"l", "s">> }

NextQuotes ==
    \/ \E t \in SeqTasks, command \in QuoteCommands, cwd \in { Nothing, Some(<<"/", "a">>) },
          login \in BOOLEAN, session \in SessionArgs :
          ExecuteCommand(t, command, cwd, Some("30.0"), login, session)
    \/ \E t \in SeqTasks, command \in QuoteCommands, cwd \in { Nothing, Some(<<"/", "a">>) } :
          EnhancedExecuteCommand(t, command, cwd, Some("30.0"))
    \/ \E t \in SeqTasks, feed_raises \in BOOLEAN : SpawnOk(t, feed_raises)
    \/ \E t \in SeqTasks : SpawnFails(t)
    \/ \E t \in SeqTasks, outcome \in ProcOutcomes : ProcessExits(t, outcome, FALSE)
    \/ \E t \in SeqTasks : Completes(t)
    \/ \E t \in SeqTasks : TimesOut(t)
    \/ \E t \in SeqTasks : CallerResumes(t, "none")

SpecQuotes == Init /\ [][NextQuotes]_vars

RECURSIVE QuoteLeftOpen(_, _)
\* the text ends inside a quotation; q is the quote that is open, "" for none
QuoteLeftOpen(s, q) ==
    IF s = Empty THEN q # ""
    ELSE IF q = "'" THEN QuoteLeftOpen(Tail(s), IF Head(s) = "'" THEN "" ELSE q)
    ELSE IF Head(s) = "\\"
         THEN (IF Tail(s) = Empty THEN q # "" ELSE QuoteLeftOpen(Tail(Tail(s)), q))
    ELSE IF q = "\"" THEN QuoteLeftOpen(Tail(s), IF Head(s) = "\"" THEN "" ELSE q)
    ELSE QuoteLeftOpen(Tail(s), IF Head(s) \in {"'", "\""} THEN Head(s) ELSE "")

\* the command has an unterminated quote, or is empty or all whitespace
Malformed(command) ==
    \/ QuoteLeftOpen(command, "")
    \/ \A i \in 1..Len(command) : command[i] \in {" ", "\t", "\n"}

\* C25: is_command_allowed, of both executors, is false for every command
\* with an unterminated quote and for every empty or whitespace-only command;
\* execute_command answers such a command with return_code 1 and a message,
\* creates no subprocess and leaves the session registry as it was.
C25_MalformedRejected ==
    [][/\ \A command \in QuoteCommands :
             Malformed(command) =>
                /\ ~IsCommandAllowed(command, excluded_commands)
                /\ ~EnhancedIsCommandAllowed(command, strict_excluded, ExcludedPatterns)
       /\ \A t \in Tasks :
             (Called(t) /\ Malformed(call'[t].text)) =>
                /\ RejectedNoSpawn(t)'
                /\ Res(t)'.error_message[1].fmt = "Command not allowed: {command}"
                /\ sessions' = sessions]_vars

\* the two kinds of command have been turned away: one with an open quote by
\* execute_command on a session, whose record was not made, and a blank one
C25_Witness ==
    \E t \in Tasks :
        /\ RejectedNoSpawn(t)
        /\ call[t].op = "execute_command"
        /\ call[t].text = <<"l", "s", " ", "\"", "a", "'", "\"", " ", "'">>
        /\ call[t].session = Some("s1")
        /\ "s1" \notin DOMAIN sessions

(***************************************************************************)
(* The strict variant                                                      *)
(***************************************************************************)
\* a command for each excluded pattern, commands with a denied base token,
\* and commands with none of them, some with characters a shell would read
StrictCommands ==
    { <<"l", "s", ">", "f">>,    \* ls>f
      <<"l", "s", ">", ">", "f">>,    \* ls>>f
      <<"l", "s", "|", "w">>,    \* ls|w
      <<"l", "s", "&">>,    \* ls&
      <<"l", "s", "&", "&", "w">>,    \* ls&&w
      <<"l", "s", "|", "|", "w">>,    \* ls||w
      <<"l", "s", ";", "w">>,    \* ls;w
      <<"l", "s", " ", Backquote, "w", Backquote>>,    \* ls (backquote)w(backquote)
      <<"l", "s", " ", "$", "(", "w", ")">>,    \* ls $(w)
      <<"l", "s", " ", "$", "(", "(", "1", ")", ")">>,    \* ls $((1))
      <<"l", "s", " ", "<", "(", "w", ")">>,    \* ls <(w)
      <<"l", "s", " ", ">", "(", "w", ")">>,    \* ls >(w)
      <<"c", "a", "t", "<", "<", "<", "w">>,    \* cat<<<w
      <<"r", "m", " ", "x">>,    \* rm x
      <<"'", "r", "m", "'", " ", "x">>,    \* 'rm' x
      <<"l", "s">>,    \* ls
      <<"e", "c", "h", "o", " ", "$", "H">>,    \* echo $H
      <<"c", "a", "t", " ", "<", " ", "f">>,    \* cat < f
      <<"'", "l", "s", "'", " ", "-", "l">> }    \* 'ls' -l

NextStrict ==
    \/ \E t \in SeqTasks, command \in StrictCommands,
          cwd \in { Nothing, Some(<<"/", "a">>), Some(<<"/", "x">>) }, timeout \in Timeouts :
          EnhancedExecuteCommand(t, command, cwd, timeout)
    \/ \E command \in { <<"r", "m">>, <<"l", "s">> } : Quiet /\ EnhancedAllowCommand(command)
    \/ \E command \in { <<"r", "m">>, <<"l", "s">> } : Quiet /\ EnhancedDenyCommand(command)
    \/ \E t \in SeqTasks, feed_raises \in BOOLEAN : SpawnOk(t, feed_raises)
    \/ \E t \in SeqTasks : SpawnFails(t)
    \/ \E t \in SeqTasks, outcome \in ProcOutcomes : ProcessExits(t, outcome, FALSE)
    \/ \E t \in SeqTasks : Completes(t)
    \/ \E t \in SeqTasks : TimesOut(t)
    \/ \E t \in SeqTasks : CallerResumes(t, "none")

SpecStrict == Init /\ [][NextStrict]_vars

\* the patterns the strict variant turns away
ClaimedPatterns ==
    { <<">">>, <<">", ">">>, <<"|">>, <<"&">>, <<"&", "&">>, <<"|", "|">>, <<";">>,
      <<Backquote>>, <<"$", "(">>, <<"$", "(", "(">>, <<"<", "(">>, <<">", "(">>,
      <<"<", "<", "<">> }

HasClaimedPattern(command) == \E pattern \in ClaimedPatterns : Contains(command, pattern)

\* the subprocess of the invocation, if it has one, was created from an
\* argument vector: the shell words of the command, and no shell
RunsDirectly(t) ==
    proc[t].state # "none" =>
        /\ ~proc[t].shell
        /\ proc[t].argv # << >>
        /\ proc[t].argv = ShlexSplit(call[t].text).words
        /\ ~HasClaimedPattern(call[t].text)
        /\ ~BaseDenied(call[t].text, strict_excluded)

\* C26: the strict variant answers every command that holds an excluded
\* pattern or whose base token is in its denylist with return_code 1 and no
\* subprocess, and every subprocess it creates is run from the argument
\* vector of the command, never through a shell.
C26_StrictRejectsOrExecs ==
    [][\A t \in Tasks :
          /\ ( /\ Called(t)
               /\ call'[t].op = "enhanced_execute_command"
               /\ \/ HasClaimedPattern(call'[t].text)
                  \/ BaseDenied(call'[t].text, strict_excluded) )
             => ( /\ RejectedNoSpawn(t)'
                  /\ Res(t)'.error_message[1].fmt = "Command not allowed: {command}" )
          /\ call'[t].op = "enhanced_execute_command" => RunsDirectly(t)']_vars

\* echo $H was run: its words are the argument vector, the $ unread by any
\* shell; ls has been denied meanwhile
C26_Witness ==
    /\ InList(<<"l", "s">>, strict_excluded)
    /\ \E t \in Tasks :
          /\ call[t].op = "enhanced_execute_command"
          /\ pc[t] = "returned"
          /\ Res(t).return_code = 0
          /\ proc[t].argv = << <<"e", "c", "h", "o">>, <<"$", "H">> >>
          /\ ~proc[t].shell

(***************************************************************************)
(* cd commands of callers that run together                                *)
(***************************************************************************)
\* two callers on one session id: relative cd commands, whose outcome
\* depends on their order, and a command that waits for a subprocess
NextParCd ==
    \/ \E t \in Tasks,
          command \in { <<"c", "d", " ", "a">>, <<"c", "d", " ", "b">>,
                        <<"c", "d", " ", ".", ".">>, <<"l", "s">> } :
          ExecuteCommand(t, command, Nothing, Some("30.0"), FALSE, Some("s1"))
    \/ \E t \in Tasks, feed_raises \in BOOLEAN : SpawnOk(t, feed_raises)
    \/ \E t \in Tasks : SpawnFails(t)
    \/ \E t \in Tasks, outcome \in ProcOutcomes : ProcessExits(t, outcome, FALSE)
    \/ \E t \in Tasks : Completes(t)
    \/ \E t \in Tasks : TimesOut(t)
    \/ \E t \in Tasks : CallerResumes(t, "none")

SpecParCd == Init /\ [][NextParCd]_vars

\* the step is a cd of some task on a session
SomeCdCalled == \E t \in Tasks : CdCalled(t)

\* C27: a cd on a session runs from its call to its return in one step of
\* the event loop: it resolves its target against the directory the session
\* has at that step and stores it in the same step, and no step of another
\* invocation changes a session's directory, so the directory of a session is
\* always the outcome of the cd commands applied one after another in the
\* order of their steps.
C27_CdIsAtomic ==
    [][/\ \A t \in Tasks :
             CdCalled(t) =>
                /\ pc'[t] = "returned"
                /\ spawns'[t] = 0
                /\ GetWorkingDir(sessions', call'[t].session[1])
                     = IF CdGoal(t) \in Dirs
                       THEN PathOf(CdGoal(t))
                       ELSE GetWorkingDir(sessions, call'[t].session[1])
                /\ Res(t)'.return_code = IF CdGoal(t) \in Dirs THEN 0 ELSE 1
       /\ ~SomeCdCalled =>
             \A s \in SessionIds : GetWorkingDir(sessions', s) = GetWorkingDir(sessions, s)
       /\ \A t \in Tasks :
             (IsCd(call'[t].text) /\ call'[t].session # Nothing)
                => pc'[t] \in {"idle", "returned"}]_vars

\* cd a of t1 and cd b of t2 have both returned success on session s1, which
\* is at /a/b: the cd of t2 started from what the cd of t1 had stored
C27_Witness ==
    /\ pc["t1"] = "returned"
    /\ call["t1"].text = <<"c", "d", " ", "a">>
    /\ Res("t1").return_code = 0
    /\ pc["t2"] = "returned"
    /\ call["t2"].text = <<"c", "d", " ", "b">>
    /\ Res("t2").return_code = 0
    /\ "s1" \in DOMAIN sessions
    /\ sessions["s1"] = <<"/", "a", "/", "b">>

(***************************************************************************)
(* Scripts and the denylist                                                *)
(***************************************************************************)
\* the names that are denied and allowed: an interpreter, the first word of
\* a script, the command of a language
ScriptDenyArgs == { <<"r", "m">>, <<"b", "a", "s", "h">>, <<"p", "y", "t", "h", "o", "n">> }

NextScripts ==
    \/ \E t \in SeqTasks, script \in { <<"r", "m", " ", "x">>, <<"p">> },
          interpreter \in { <<"r", "m">>, <<"b", "a", "s", "h">> },
          cwd \in { Nothing, Some(<<"/", "a">>), Some(<<"/", "x">>) },
          login \in BOOLEAN, session \in SessionArgs :
          ExecuteScript(t, script, interpreter, cwd, Some("30.0"), login, session)
    \/ \E t \in SeqTasks, script \in { <<"r", "m", " ", "x">>, <<"p">> },
          language \in { "python", "cobol" }, login \in BOOLEAN :
          ExecuteScriptFromFile(t, script, language, Some(<<"/", "a">>), Some("30.0"),
                                login, Nothing, TRUE)
    \/ \E command \in ScriptDenyArgs : Quiet /\ AllowCommand(command)
    \/ \E command \in ScriptDenyArgs : Quiet /\ DenyCommand(command)
    \/ \E t \in SeqTasks, feed_raises \in BOOLEAN : SpawnOk(t, feed_raises)
    \/ \E t \in SeqTasks : SpawnFails(t)
    \/ \E t \in SeqTasks, outcome \in ProcOutcomes, removes_file \in BOOLEAN :
          ProcessExits(t, outcome, removes_file)
    \/ \E t \in SeqTasks : Completes(t)
    \/ \E t \in SeqTasks : TimesOut(t)
    \/ \E t \in SeqTasks : CallerResumes(t, "none")

SpecScripts == Init /\ [][NextScripts]_vars

\* the working directory of the invocation is none, or an existing allowed
\* directory
CwdFine(c) ==
    \/ c.cwd = Nothing /\ c.session = Nothing
    \/ Lookup(ExpectedDir(c)) # NoDir /\ ClaimedAllowed(ExpectedDir(c))

\* what the call of a script method does with arguments c, told from the
\* arguments, the paths and the sessions, and not from excluded_commands:
\* execute_script goes on to its spawn when its working directory is fine,
\* execute_script_from_file when the language is supported
GoesToSpawn(c) ==
    IF c.op = "execute_script" THEN CwdFine(c) ELSE c.language \in ClaimedLanguages

\* C28: the call of execute_script and of execute_script_from_file does the
\* same whatever excluded_commands holds, the interpreter or the first word
\* of the script included: it goes on to its spawn or returns a failure that
\* the arguments, the paths and the sessions decide, never "Command not
\* allowed", and it leaves the list as it is.
C28_ScriptsIgnoreDenylist ==
    [][\A t \in Tasks :
          (Called(t) /\ call'[t].op \in {"execute_script", "execute_script_from_file"})
          => /\ excluded_commands' = excluded_commands
             /\ IF GoesToSpawn(call'[t])
                THEN pc'[t] = "spawning"
                ELSE /\ RejectedNoSpawn(t)'
                     /\ Res(t)'.error_message[1].fmt # "Command not allowed: {command}"]_vars

\* the interpreter rm, with rm, bash and python denied, runs the script whose
\* first word is rm
C28_Witness ==
    /\ \A command \in ScriptDenyArgs : InList(command, excluded_commands)
    /\ \E t \in Tasks :
          /\ call[t].op = "execute_script"
          /\ call[t].interp = <<"r", "m">>
          /\ call[t].text = <<"r", "m", " ", "x">>
          /\ proc[t].state = "running"
          /\ proc[t].argv = << <<"r", "m">> >>

(***************************************************************************)
(* A session outside the allowed paths                                     *)
(***************************************************************************)
\* cd commands out of and into the allowed path, and other commands
OutsideCommands ==
    { <<"c", "d", " ", "/", "x">>, <<"c", "d", " ", "/", "a">>, <<"c", "d", " ", ".", ".">>,
      <<"l", "s">>, <<"l", "s", "|", "w">>, <<"c", "d">> }

NextOutside ==
    \/ \E t \in SeqTasks, command \in OutsideCommands, cwd \in { Nothing, Some(Empty) },
          login \in BOOLEAN, sid \in SessionIds :
          ExecuteCommand(t, command, cwd, Some("30.0"), login, Some(sid))
    \/ \E t \in SeqTasks, interpreter \in { <<"b", "a", "s", "h">>, <<"F", "i", "s", "h">>, Empty },
          cwd \in { Nothing, Some(Empty) }, login \in BOOLEAN, sid \in SessionIds :
          ExecuteScript(t, <<"p">>, interpreter, cwd, Some("30.0"), login, Some(sid))
    \/ \E t \in SeqTasks, feed_raises \in BOOLEAN : SpawnOk(t, feed_raises)
    \/ \E t \in SeqTasks : SpawnFails(t)
    \/ \E t \in SeqTasks, outcome \in ProcOutcomes : ProcessExits(t, outcome, FALSE)
    \/ \E t \in SeqTasks : Completes(t)
    \/ \E t \in SeqTasks : TimesOut(t)
    \/ \E t \in SeqTasks : CallerResumes(t, "none")

SpecOutside == Init /\ [][NextOutside]_vars

\* the directory of the session exists and is under no allowed path
SessionOutside(sid) ==
    /\ Lookup(GetWorkingDir(sessions, sid)) # NoDir
    /\ ~ClaimedAllowed(GetWorkingDir(sessions, sid))

\* the step is a call on a session, with no cwd, of execute_script or of
\* execute_command with a command that is no cd with a target
UsesSession(t) ==
    /\ Called(t)
    /\ call'[t].session # Nothing
    /\ ~Truthy(call'[t].cwd)
    /\ \/ call'[t].op = "execute_script"
       \/ call'[t].op = "execute_command" /\ ~IsCd(call'[t].text)

\* C29: a cd to an existing directory succeeds whether the directory is
\* allowed or not; while the directory of a session exists and is outside
\* every allowed path, every execute_command other than cd and every
\* execute_script on that session without a cwd returns return_code 1 and
\* creates no subprocess.
C29_OutsideSessionRejected ==
    [][\A t \in Tasks :
          /\ (CdCalled(t) /\ CdGoal(t) \in Dirs) =>
                (Res(t)'.return_code = 0
                 /\ GetWorkingDir(sessions', call'[t].session[1]) = PathOf(CdGoal(t)))
          /\ (UsesSession(t) /\ SessionOutside(call'[t].session[1])) =>
                RejectedNoSpawn(t)']_vars

\* s1 was moved to /x by a cd and an execute_script on it was turned away,
\* while s2 was moved under the allowed path
C29_Witness ==
    /\ DOMAIN sessions = SessionIds
    /\ sessions["s1"] = <<"/", "x">>
    /\ sessions["s2"] = <<"/", "a">>
    /\ \E t \in Tasks :
          /\ call[t].op = "execute_script"
          /\ call[t].session = Some("s1")
          /\ RejectedNoSpawn(t)
          /\ Res(t).error_message[1].fmt = "Working directory not allowed: {effective_cwd}"

(***************************************************************************)
(* The two executors side by side, as they are constructed                 *)
(***************************************************************************)
\* commands with a dangerous base, with a pattern, with quotes, and plain
BothCommands ==
    StrictCommands \cup QuoteCommands \cup
    { <<"c", "p", " ", "x">>, <<"r", "m", "d", "i", "r", " ", "x">>, <<"r", "m", "x">>,
      <<"s", "u", "d", "o", " ", "r", "m">>, <<"l", "s", " ", "r", "m">> }

\* no allow_command and no deny_command: both lists stay as constructed
NextBoth ==
    \/ \E t \in SeqTasks, command \in BothCommands, login \in BOOLEAN :
          ExecuteCommand(t, command, Some(<<"/", "a">>), Some("30.0"), login, Nothing)
    \/ \E t \in SeqTasks, command \in BothCommands :
          EnhancedExecuteCommand(t, command, Some(<<"/", "a">>), Some("30.0"))
    \/ \E t \in SeqTasks, feed_raises \in BOOLEAN : SpawnOk(t, feed_raises)
    \/ \E t \in SeqTasks : SpawnFails(t)
    \/ \E t \in SeqTasks, outcome \in ProcOutcomes : ProcessExits(t, outcome, FALSE)
    \/ \E t \in SeqTasks : Completes(t)
    \/ \E t \in SeqTasks : TimesOut(t)
    \/ \E t \in SeqTasks : CallerResumes(t, "none")

SpecBoth == Init /\ [][NextBoth]_vars

\* the call made in this step was turned away by is_command_allowed
TurnedAway(t) ==
    /\ RejectedNoSpawn(t)'
    /\ Res(t)'.error_message[1].fmt = "Command not allowed: {command}"

\* the strict check and the permissive check of a command, on the two lists
StrictAccepts(command) == EnhancedIsCommandAllowed(command, strict_excluded, ExcludedPatterns)
PermissiveAccepts(command) == IsCommandAllowed(command, excluded_commands)

\* C30: with both executors as constructed, every command the strict
\* is_command_allowed accepts is accepted by the permissive one: a command
\* that EnhancedCommandExecutor.execute_command lets past its check is one
\* that CommandExecutor accepts, and a command that CommandExecutor.
\* execute_command turns away is one that the strict check turns away.
C30_StrictWithinPermissive ==
    [][/\ \A command \in BothCommands : StrictAccepts(command) => PermissiveAccepts(command)
       /\ \A t \in Tasks :
             /\ (Called(t) /\ call'[t].op = "enhanced_execute_command" /\ ~TurnedAway(t)) =>
                   PermissiveAccepts(call'[t].text)
             /\ (Called(t) /\ call'[t].op = "execute_command" /\ TurnedAway(t)) =>
                   ~StrictAccepts(call'[t].text)]_vars

\* the strict executor has a subprocess for a command it accepted, and the
\* strict policy is the smaller one: the permissive check accepts a command
\* with a pipe and one with the base cp, which the strict check turns away
C30_Witness ==
    /\ \E t \in Tasks :
          /\ call[t].op = "enhanced_execute_command"
          /\ call[t].text = <<"'", "l", "s", "'", " ", "-", "l">>
          /\ proc[t].state # "none"
          /\ StrictAccepts(call[t].text) /\ PermissiveAccepts(call[t].text)
    /\ PermissiveAccepts(<<"l", "s", "|", "w">>) /\ ~StrictAccepts(<<"l", "s", "|", "w">>)
    /\ PermissiveAccepts(<<"c", "p", " ", "x">>) /\ ~StrictAccepts(<<"c", "p", " ", "x">>)

====
